---- MODULE Spec2Model ----
(***************************************************************************)
(* Job orchestration and progress tracking of the music-analysis API:      *)
(* the temp-file manager (api/utils/memory_file_handler.py), the progress  *)
(* tracker (api/services/progress_tracker.py), the analysis service        *)
(* (api/services/analysis_service.py), the fire-and-wait endpoint          *)
(* (api/endpoints/analysis_sync.py) and the submit-and-poll endpoints      *)
(* (api/endpoints/analysis_async.py).                                      *)
(*                                                                         *)
(* All request handlers and background tasks are coroutines of one asyncio *)
(* event loop: a step of the model is the code a coroutine runs between    *)
(* two suspension points (an await that really yields).  Blocking file     *)
(* operations and the engine run in executor threads and are steps of      *)
(* their own.                                                              *)
(*                                                                         *)
(* Units: step_progress is in percent (0..100); overall_progress and the   *)
(* job's "progress" field are in tenths of a percent (1000 = 100.0),       *)
(* which is the resolution of round(x, 1).                                 *)
(***************************************************************************)
EXTENDS Integers, Sequences, FiniteSets, TLC

\* ------------------------------------------------------------------ bounds

\* Number of requests (fire-and-wait or submit-and-poll) admitted in a run.
MaxRequests == 1

\* Number of job records in the registry when the endpoints that take a
\* task id are exercised on their own.
MaxTasks == 2

\* Number of files a client puts into one batch.
MaxFiles == 3

\* Number of cleanup_file calls made on one handle when the temp-file
\* manager is exercised on its own.
MaxReleases == 2

\* Number of handles save_to_temp handed out when the temp-file manager is
\* exercised on its own.
MaxHandles == 3

\* The last reading of the clock when the tracker registry is exercised on
\* its own.
MaxClock == 4

\* Clock readings per hour: ages fall between whole hours.
HourTicks == 2

\* Clock readings per minute.
MinuteTicks == 2

\* The uploads saved while the storage endpoints are exercised.
MaxStored == 2

\* ------------------------------------------------------- progress tracker

\* AnalysisStep, in declaration order (the order of iteration of the enum
\* and of the step_weights dict).
Steps ==
    << "initializing", "loading_model", "audio_separation",
       "spectrogram_extraction", "feature_extraction", "beat_tracking",
       "segment_analysis", "generating_results", "saving_outputs",
       "completed" >>

StepSet == { Steps[i] : i \in 1..Len(Steps) }

\* Position of a step in the declared phase order.
StepIndex(s) == CHOOSE i \in 1..Len(Steps) : Steps[i] = s

\* step.value: the member's string, as its sequence of character codes.
StepValue(s) ==
    CASE s = "initializing" ->
           <<105,110,105,116,105,97,108,105,122,105,110,103>>
      [] s = "loading_model" ->
           <<108,111,97,100,105,110,103,95,109,111,100,101,108>>
      [] s = "audio_separation" ->
           <<97,117,100,105,111,95,115,101,112,97,114,97,116,105,111,110>>
      [] s = "spectrogram_extraction" ->
           <<115,112,101,99,116,114,111,103,114,97,109,95,101,120,116,114,
             97,99,116,105,111,110>>
      [] s = "feature_extraction" ->
           <<102,101,97,116,117,114,101,95,101,120,116,114,97,99,116,105,
             111,110>>
      [] s = "beat_tracking" ->
           <<98,101,97,116,95,116,114,97,99,107,105,110,103>>
      [] s = "segment_analysis" ->
           <<115,101,103,109,101,110,116,95,97,110,97,108,121,115,105,115>>
      [] s = "generating_results" ->
           <<103,101,110,101,114,97,116,105,110,103,95,114,101,115,117,108,
             116,115>>
      [] s = "saving_outputs" ->
           <<115,97,118,105,110,103,95,111,117,116,112,117,116,115>>
      [] s = "completed" ->
           <<99,111,109,112,108,101,116,101,100>>

\* Python's < on str: lexicographic on the code points, a proper prefix
\* being smaller.
StrLess(a, b) ==
    \E k \in 1..(Len(a) + 1) :
        /\ \A i \in 1..(k - 1) : i <= Len(b) /\ a[i] = b[i]
        /\ \/ k = Len(a) + 1 /\ Len(b) >= k
           \/ k <= Len(a) /\ k <= Len(b) /\ a[k] < b[k]

\* step_weights, in hundredths (0.02 -> 2).
StepWeight(s) ==
    CASE s = "initializing" -> 2
      [] s = "loading_model" -> 15
      [] s = "audio_separation" -> 25
      [] s = "spectrogram_extraction" -> 15
      [] s = "feature_extraction" -> 8
      [] s = "beat_tracking" -> 15
      [] s = "segment_analysis" -> 15
      [] s = "generating_results" -> 3
      [] s = "saving_outputs" -> 2
      [] s = "completed" -> 100

\* max(0, min(100, p))
Clamp(p) == IF p < 0 THEN 0 ELSE IF p > 100 THEN 100 ELSE p

\* round(x, 1) of a value given in hundredths of a percent, in tenths:
\* to the nearest tenth, a tie going to the even one.
Round1(h) ==
    LET q == h \div 10
        r == h % 10
    IN  IF r < 5 THEN q
        ELSE IF r > 5 THEN q + 1
        ELSE IF q % 2 = 0 THEN q ELSE q + 1

\* The loop of _calculate_overall_progress from the i-th entry of
\* step_weights on: completed_weight * 100, in hundredths of a percent.
RECURSIVE WeightFrom(_, _, _)
WeightFrom(i, cur, sp) ==
    IF i > Len(Steps) THEN 0
    ELSE IF Steps[i] = cur THEN StepWeight(Steps[i]) * sp
    ELSE IF StrLess(StepValue(Steps[i]), StepValue(cur))
         THEN StepWeight(Steps[i]) * 100 + WeightFrom(i + 1, cur, sp)
         ELSE WeightFrom(i + 1, cur, sp)

\* ProgressTracker._calculate_overall_progress, in tenths of a percent.
CalculateOverallProgress(cur, sp) == Round1(WeightFrom(1, cur, sp))

\* ProgressTracker.__init__: the fields the estimator uses.
NewTracker ==
    [ current_step |-> "initializing", step_progress |-> 0,
      overall_progress |-> 0 ]

\* ProgressTracker.update_step
UpdateStep(t, step, p) ==
    [ current_step |-> step, step_progress |-> Clamp(p),
      overall_progress |-> CalculateOverallProgress(step, Clamp(p)) ]

\* ProgressTracker.update_step_progress
UpdateStepProgress(t, p) ==
    [ t EXCEPT !.step_progress = Clamp(p),
               !.overall_progress =
                   CalculateOverallProgress(t.current_step, Clamp(p)) ]

\* ProgressTracker.complete
Complete(t) == UpdateStep(t, "completed", 100)

\* Arguments a caller passes as step progress: the multiples of ten the
\* service uses, and one value on each side of the clamp.
ProgressArgs == { 10 * k : k \in 0..10 } \cup { -10, 110 }

\* ------------------------------------------------------------ processes

\* One fire-and-wait request (analyze_audio_sync) or one submit-and-poll
\* job (submit_analysis_task followed by its background task) per slot.
\* A slot's tuple also stands for the uuid4 values the code draws for it:
\* the request id, the task id and the temp-file id.
SyncProcs == { <<"sync", i>> : i \in 1..MaxRequests }

AsyncProcs == { <<"async", i>> : i \in 1..MaxRequests }

Procs == SyncProcs \cup AsyncProcs

Kind(p) == p[1]

\* One batch (submit_batch_analysis followed by its background task) per
\* slot; the tuple stands for the batch's task id.
BatchProcs == { << "batch", i >> : i \in 1..MaxRequests }

\* The file id save_to_temp draws for the k-th file of a batch.
BatchFileId(b, k) == << "bfile", b[2], k >>

BatchFileIds == { BatchFileId(b, k) : b \in BatchProcs, k \in 1..MaxFiles }

\* The handles cleanup_file is called on when the temp-file manager is
\* exercised on its own.
ReleaseIds == { << "file", i >> : i \in 1..MaxHandles }

\* Every file id the model hands out.
FileIds == Procs \cup BatchFileIds \cup ReleaseIds

\* file_id = None
NoFile == <<"none", 0>>

\* Number of parameters of analyze_single_file_with_progress besides self.
AnalyzeParams == 3

\* Positional arguments analyze_audio_sync passes to it.
SyncCallArgs == 3

\* Positional arguments _process_async_analysis_task passes to it.
AsyncCallArgs == 4

\* A Python call binds only when the positional arguments fit the
\* parameters; otherwise the call expression raises TypeError.
CallBinds(nargs) == nargs = AnalyzeParams

\* str(e) of that TypeError.
ArityError == "takes 4 positional arguments but 5 were given"

\* str(e) of an exception raised by allin1.analyze.
EngineError == "engine failure"

\* str(e) of the UnboundLocalError raised when the code after the executor
\* call reads `results` although the call was cancelled.
UnboundError == "local variable 'results' referenced before assignment"

\* isinstance(e, Exception) for what the model raises: TypeError, the
\* engine's errors and UnboundLocalError are caught by `except Exception`;
\* asyncio.CancelledError derives from BaseException and is not.
IsException(e) == e \in { ArityError, EngineError, UnboundError }

\* The timeout form field's upper limit (seconds).
MaxTimeout == 600

\* Values of the timeout form field a client sends.
TimeoutArgs == { 0, 1, MaxTimeout, MaxTimeout + 1 }

\* The progress values of the simulated model-loading loop:
\* range(0, 101, 10) has LoadTicks + 1 elements.
LoadTicks == 10

\* progress_values of update_progress_during_analysis.
TickerValues == << 60, 70, 80, 90 >>

\* ---------------------------------------------------------- job records

NoResult == [ data |-> "none", files |-> "none" ]

\* _convert_allin1_result and _generate_file_links applied to what the
\* engine returned for the upload.
Translated(p) == [ data |-> <<"AnalysisResult", p>>, files |-> <<"FileLinks", p>> ]

\* A task id that was never registered.
NoTask ==
    [ status |-> "none", progress |-> 0, current_step |-> "none",
      message |-> [ text |-> "none", detail |-> "" ], file_id |-> NoFile,
      result |-> NoResult, error |-> "none" ]

\* submit_analysis_task: the record stored in async_tasks.
TaskCreated(fid) ==
    [ status |-> "pending", progress |-> 0, current_step |-> "queued",
      message |-> [ text |-> "task created, waiting", detail |-> "" ],
      file_id |-> fid, result |-> NoResult, error |-> "none" ]

\* A driver that starts the analysis without touching the record.
TaskProcessingSkipped(ti) == ti

\* _process_async_analysis_task: entry to processing.
TaskProcessing(ti) ==
    [ ti EXCEPT !.status = "processing", !.progress = 50,
                !.current_step = "initializing",
                !.message = [ text |-> "analysis started", detail |-> "" ] ]

\* _process_async_analysis_task: the result is saved.
TaskCompleted(ti, res) ==
    [ ti EXCEPT !.status = "completed", !.progress = 1000,
                !.current_step = "completed",
                !.message = [ text |-> "analysis completed", detail |-> "" ],
                !.result = res ]

\* An except clause that marks the job failed without storing the error.
TaskFailedUnrecorded(ti, e) ==
    [ ti EXCEPT !.status = "failed", !.current_step = "failed" ]

\* _process_async_analysis_task: except Exception as e.
TaskFailed(ti, e) ==
    [ ti EXCEPT !.status = "failed", !.current_step = "failed",
                !.message = [ text |-> "analysis failed: ", detail |-> e ],
                !.error = e ]

\* The record after the try statement of _process_async_analysis_task
\* when its body raised e: an Exception is handled by the except clause,
\* anything else leaves the record as it was and escapes from the task.
DriverExcept(ti, e) == IF IsException(e) THEN TaskFailed(ti, e) ELSE ti

\* The statuses assigned on the way from record a to record b.
StatusWrites(a, b) == IF b.status = a.status THEN << >> ELSE << b.status >>

VARIABLES
    pt,              \* a ProgressTracker driven directly through its methods
    pt_valid,        \* every call made on pt so far kept the phase order
    temp_files,      \* MemoryFileHandler.temp_files: the tracked file ids
    disk,            \* per file id: do the temp file and its directory exist
    releases,        \* per file id: calls of cleanup_file made so far
    async_tasks,     \* the keys of the async_tasks registry
    task_info,       \* per task id: the record object the registry refers to
    status_log,      \* per task id: the values assigned to "status", in order
    crashed,         \* background tasks an exception escaped from
    pc,              \* per slot: the suspension point its coroutine is at
    file_id,         \* per slot: the handler's local file_id
    cl,              \* per slot: the point its cleanup_file call is at
    loop_i,          \* per slot: index of the model-loading loop
    ticks,           \* per slot: updates the progress ticker has made
    tracker,         \* per request id: the ProgressTracker object
    active_trackers, \* the keys of ProgressTracker._active_trackers
    upload,          \* per slot: "invalid" when validate_audio_file refused
                     \* the upload, else what the engine does with it
    response,        \* per slot: status code of the HTTP response
    reply            \* the last reply of a task endpoint called by id

VARIABLES
    cf_ret,          \* the last cleanup_file call made directly, its result
    batch_tasks,     \* the keys of the batch_tasks registry
    batch_info,      \* per batch id: the record object the registry refers to
    batch_log,       \* per batch id: status writes and item attempts, in order
    batch_pc,        \* per batch id: where its request or driving task is
    batch_cl,        \* per batch id: the point its cleanup_file call is at
    batch_cur,       \* per batch id: index in file_ids of the file released
    batch_req,       \* per batch id: the files the client submitted
    batch_resp       \* per batch id: the response of submit_batch_analysis

batchVars ==
    << batch_tasks, batch_info, batch_log, batch_pc, batch_cl, batch_cur,
       batch_req, batch_resp >>

VARIABLES
    pt_est,          \* the remaining-time estimate get_status last made for
                     \* the tracker pt, and the step time it was made at
    now,             \* the reading time.time() gives
    start_time,      \* per request id: the start_time of its tracker
    prog_reply       \* the last sweep of the tracker registry, its answer

progVars == << now, start_time, prog_reply >>

VARIABLES
    created_at,      \* per file id: the created_at of its temp_files entry
    admin,           \* the storage endpoint being served: the sweep it runs
    owner            \* a cleanup_file call a job makes on its own handle

storeVars == << created_at, admin, owner >>

\* The variables of the parts that are exercised on their own.
soloVars == << cf_ret, progVars, storeVars >>

moreVars == << soloVars, batchVars >>

vars ==
    << pt, pt_valid, pt_est, temp_files, disk, releases, async_tasks, task_info,
       status_log, crashed, pc, file_id, cl, loop_i, ticks, tracker,
       active_trackers, upload, response, reply, moreVars >>

trackerVars == << pt, pt_valid, pt_est >>

handlerVars == << temp_files, disk, releases >>

registryVars == << async_tasks, task_info, status_log >>

procVars ==
    << crashed, pc, file_id, cl, loop_i, ticks, tracker, active_trackers,
       upload, response >>

\* -------------------------------------------- the tracker, driven directly

\* A call keeps the phase order when the phase does not move backward and,
\* within one phase, the step progress does not decrease.
ValidCall(old, new) ==
    \/ StepIndex(new.current_step) > StepIndex(old.current_step)
    \/ /\ new.current_step = old.current_step
       /\ new.step_progress >= old.step_progress

PtCall(new) ==
    /\ pt' = new
    /\ pt_valid' = (pt_valid /\ ValidCall(pt, new))
    /\ UNCHANGED << pt_est, handlerVars, registryVars, procVars, reply,
                    moreVars >>

PtUpdateStep(step, p) == PtCall(UpdateStep(pt, step, p))

PtUpdateStepProgress(p) == PtCall(UpdateStepProgress(pt, p))

PtComplete == PtCall(Complete(pt))

\* step_estimates as min + max, that is the midpoint of the expected
\* duration in half seconds; the default (0, 0) for a phase without entry.
StepEstimate(s) ==
    CASE s = "initializing" -> 1 + 2
      [] s = "loading_model" -> 5 + 15
      [] s = "audio_separation" -> 10 + 30
      [] s = "spectrogram_extraction" -> 5 + 15
      [] s = "feature_extraction" -> 3 + 8
      [] s = "beat_tracking" -> 5 + 12
      [] s = "segment_analysis" -> 8 + 20
      [] s = "generating_results" -> 2 + 5
      [] s = "saving_outputs" -> 1 + 3
      [] OTHER -> 0

\* No estimate: the None _estimate_remaining_time returns.
NoEstimate == -1

\* Sum of f over the set S.
RECURSIVE SumOver(_, _)
SumOver(S, f) ==
    IF S = {} THEN 0
    ELSE LET x == CHOOSE y \in S : TRUE
         IN  f[x] + SumOver(S \ { x }, f)

\* _estimate_remaining_time, the loop over AnalysisStep: the midpoints of
\* the phases with step.value > self.current_step.value, in half seconds.
RemainingStepsTime(cur) ==
    SumOver({ s \in StepSet : StrLess(StepValue(cur), StepValue(s)) },
            [ s \in StepSet |-> StepEstimate(s) ])

\* _estimate_remaining_time for a tracker that entered its phase e seconds
\* ago: None when completed or when nothing remains, else the whole
\* seconds the returned text shows.
EstimateRemaining(t, e) ==
    IF t.current_step = "completed" THEN NoEstimate
    ELSE LET mid == StepEstimate(t.current_step)
             step_remaining == IF mid - 2 * e > 0 THEN mid - 2 * e ELSE 0
             total == step_remaining + RemainingStepsTime(t.current_step)
         IN  IF total > 0 THEN total \div 2 ELSE NoEstimate

\* The seconds since step_start_time at which get_status is called.
ElapsedArgs == { 0, 1, 10, 30 }

\* get_status on the tracker, e seconds after it entered its phase.
PtGetStatus(e) ==
    /\ pt_est' = [ elapsed |-> e, remaining |-> EstimateRemaining(pt, e) ]
    /\ UNCHANGED << pt, pt_valid, handlerVars, registryVars, procVars,
                    reply, moreVars >>

\* ------------------------------------------------------ temp-file manager

\* The result of running cleanup_file up to its next suspension point:
\* ret is "true"/"false" when it returned, "pending" when it awaits an
\* executor call (cl names which); tf is temp_files afterwards.
CfResult(c, r, tf) == [ cl |-> c, ret |-> r, tf |-> tf ]

\* A cleanup_file that reports success but leaves the entry in temp_files.
CfDelKeepsEntry(fid, tf) == CfResult("none", "true", tf)

\* A cleanup_file whose removal of the entry does not fail when the entry
\* is gone, as temp_files.pop(file_id, None) would.
CfDelUnguarded(fid, tf) == CfResult("none", "true", tf \ {fid})

\* cleanup_file: del self.temp_files[file_id]; return True.  A KeyError is
\* caught by the except clause, which returns False.
CfDel(fid, tf) ==
    IF fid \in tf THEN CfResult("none", "true", tf \ {fid})
    ELSE CfResult("none", "false", tf)

\* cleanup_file: if temp_dir.exists(): await aiofiles.os.rmdir(temp_dir)
CfDirCheck(fid, tf, dk) ==
    IF dk[fid].dir THEN CfResult("await_rmdir", "pending", tf)
    ELSE CfDel(fid, tf)

\* A cleanup_file that untracks the handle without looking at it.
CfEnterBlind(fid, tf, dk) == CfResult("none", "true", tf \ {fid})

\* cleanup_file from its entry: the membership test, then
\* if temp_file_path.exists(): await aiofiles.os.remove(temp_file_path)
CfEnter(fid, tf, dk) ==
    IF fid \notin tf THEN CfResult("none", "false", tf)
    ELSE IF dk[fid].file THEN CfResult("await_remove", "pending", tf)
    ELSE CfDirCheck(fid, tf, dk)

\* cleanup_file resumed after the executor call `c` finished: an OSError
\* of the call is caught by the except clause, which returns False.
CfResume(c, fid, tf, dk) ==
    CASE c = "remove_ok" -> CfDirCheck(fid, tf, dk)
      [] c = "rmdir_ok" -> CfDel(fid, tf)
      [] OTHER -> CfResult("none", "false", tf)

\* ----------------------------------- what follows a cleanup_file call

\* Where a coroutine stands after running on from a cleanup_file call:
\* its suspension point, the state of the call it awaits, temp_files, the
\* number of cleanup_file calls made on the way, and the status code of the
\* response when the handler ended (0: no response was produced).
Landing(at, c, tf, n, code) ==
    [ pc |-> at, cl |-> c, tf |-> tf, n |-> n, code |-> code ]

RECURSIVE RunCleanup(_, _, _, _)
RECURSIVE AfterCleanup(_, _, _, _)

\* The code after the cleanup_file call made at `at` has returned:
\*   s_clean_ok       analyze_audio_sync, after a successful analysis:
\*                    the AnalysisResponse is returned
\*   s_clean_timeout  analyze_audio_sync, except asyncio.TimeoutError:
\*                    raises HTTPException(504) inside the outer try, whose
\*                    except HTTPException clause calls cleanup_file again
\*   s_clean_http     analyze_audio_sync, except HTTPException: re-raises
\*   s_clean_exc      analyze_audio_sync, except Exception:
\*                    raises HTTPException(500)
\*   d_clean          _process_async_analysis_task, finally: returns
AfterCleanup(at, fid, tf, dk) ==
    CASE at = "s_clean_ok" -> Landing("done", "none", tf, 0, 200)
      [] at = "s_clean_timeout" -> RunCleanup("s_clean_http", fid, tf, dk)
      [] at = "s_clean_http" -> Landing("done", "none", tf, 0, 504)
      [] at = "s_clean_exc" -> Landing("done", "none", tf, 0, 500)
      [] at = "d_clean" -> Landing("done", "none", tf, 0, 0)

\* A coroutine calls cleanup_file(fid) at `at` and runs on to its next
\* suspension point.
RunCleanup(at, fid, tf, dk) ==
    LET r == CfEnter(fid, tf, dk)
    IN  IF r.ret = "pending" THEN Landing(at, r.cl, r.tf, 1, 0)
        ELSE [ AfterCleanup(at, fid, r.tf, dk) EXCEPT !.n = @ + 1 ]

\* The coroutine of slot p arrives at landing k having used file id fid.
\* Every cleanup_file call of a handler comes after its analysis has ended,
\* so the locals of the analysis are gone.
Land(p, fid, k) ==
    /\ pc' = [ pc EXCEPT ![p] = k.pc ]
    /\ loop_i' = [ loop_i EXCEPT ![p] = 0 ]
    /\ ticks' = [ ticks EXCEPT ![p] = 0 ]
    /\ cl' = [ cl EXCEPT ![p] = k.cl ]
    /\ temp_files' = k.tf
    /\ releases' = [ releases EXCEPT ![fid] = @ + k.n ]
    /\ response' = IF k.code = 0 THEN response
                   ELSE [ response EXCEPT ![p] = k.code ]

\* The executor thread runs the os.remove or os.rmdir a cleanup_file call
\* awaits: what the call leaves on disk and how it ends.  os.remove fails
\* when the file is gone, os.rmdir when the directory is gone or not
\* empty.
ExecutorRun(c, fid, dk) ==
    IF c = "await_remove"
    THEN IF dk[fid].file
         THEN [ cl |-> "remove_ok", dk |-> [ dk EXCEPT ![fid].file = FALSE ] ]
         ELSE [ cl |-> "remove_err", dk |-> dk ]
    ELSE IF dk[fid].dir /\ ~dk[fid].file
         THEN [ cl |-> "rmdir_ok", dk |-> [ dk EXCEPT ![fid].dir = FALSE ] ]
         ELSE [ cl |-> "rmdir_err", dk |-> dk ]

RECURSIVE CfRun(_, _, _)

\* cleanup_file run on from the point r to its return with no other
\* coroutine in between: its result, temp_files and the disk afterwards.
CfRun(r, fid, dk) ==
    IF r.ret # "pending" THEN [ ret |-> r.ret, tf |-> r.tf, dk |-> dk ]
    ELSE LET io == ExecutorRun(r.cl, fid, dk)
         IN  CfRun(CfResume(io.cl, fid, r.tf, io.dk), fid, io.dk)

\* One whole cleanup_file(fid) call.
CleanupFile(fid, tf, dk) == CfRun(CfEnter(fid, tf, dk), fid, dk)

\* No cleanup_file call was made directly yet.
NoCall == [ fid |-> NoFile, ret |-> "none" ]

\* A caller awaits temp_manager.cleanup_file(fid) and gets its result.
ReleaseCall(fid) ==
    /\ fid \in ReleaseIds => releases[fid] < MaxReleases
    /\ LET r == CleanupFile(fid, temp_files, disk)
       IN  /\ cf_ret' = [ fid |-> fid, ret |-> r.ret ]
           /\ temp_files' = r.tf
           /\ disk' = r.dk
    /\ releases' = IF fid \in ReleaseIds
                   THEN [ releases EXCEPT ![fid] = @ + 1 ] ELSE releases
    /\ UNCHANGED << trackerVars, registryVars, procVars, reply, batchVars,
                    progVars, storeVars >>

\* The executor call of slot p's cleanup_file runs.
CleanupIO(p) ==
    /\ cl[p] \in { "await_remove", "await_rmdir" }
    /\ LET io == ExecutorRun(cl[p], file_id[p], disk)
       IN  /\ disk' = io.dk
           /\ cl' = [ cl EXCEPT ![p] = io.cl ]
    /\ UNCHANGED << trackerVars, temp_files, releases, registryVars,
                    crashed, pc, file_id, loop_i, ticks, tracker,
                    active_trackers, upload, response, reply, moreVars >>

\* cleanup_file resumes after its executor call and the caller runs on.
CleanupResume(p) ==
    /\ cl[p] \in { "remove_ok", "remove_err", "rmdir_ok", "rmdir_err" }
    /\ LET fid == file_id[p]
           r == CfResume(cl[p], fid, temp_files, disk)
       IN  IF r.ret = "pending"
           THEN Land(p, fid, Landing(pc[p], r.cl, r.tf, 0, 0))
           ELSE Land(p, fid, AfterCleanup(pc[p], fid, r.tf, disk))
    /\ UNCHANGED << trackerVars, disk, registryVars, crashed, file_id,
                    tracker, active_trackers, upload, reply, moreVars >>

\* ------------------------------------------------------------- admission

Started ==
    { p \in Procs : pc[p] # "idle" }
        \cup { b \in BatchProcs : batch_pc[b] # "idle" }

\* Slots are taken in order, MaxRequests of them in all.
CanStart(p) ==
    /\ pc[p] = "idle"
    /\ Cardinality(Started) < MaxRequests
    /\ IF p[2] = 1 THEN TRUE ELSE pc[<< Kind(p), p[2] - 1 >>] # "idle"

\* What save_to_temp leaves on disk: the file written; or, when a step
\* fails, nothing (mkdir failed), the directory (open failed) or the
\* directory with a partial file (write failed).
WriteOutcomes == { "written", "no_dir", "dir_only", "partial" }

DiskAfter(w) ==
    [ file |-> w \in { "written", "partial" },
      dir |-> w \in { "written", "dir_only", "partial" } ]

\* ------------------------------------------- analyze_single_file_with_progress

\* The tracker as the service leaves it at each suspension point.
TrackerAtSleep0 == UpdateStep(NewTracker, "initializing", 0)

TrackerAtLoad0(t) ==
    UpdateStepProgress(
        UpdateStep(
            UpdateStepProgress(
                UpdateStep(UpdateStepProgress(t, 100), "initializing", 50),
                100),
            "loading_model", 0),
        0)

TrackerAtEngine(t) ==
    UpdateStepProgress(UpdateStep(t, "audio_separation", 0), 50)

TrackerAtReturn(t) ==
    Complete(
        UpdateStepProgress(
            UpdateStep(
                UpdateStepProgress(
                    UpdateStepProgress(
                        UpdateStep(UpdateStepProgress(t, 100),
                                   "generating_results", 0),
                        50),
                    100),
                "saving_outputs", 0),
            100))

\* The caller's code after the analysis returned `res`.
AnalysisReturned(p, res) ==
    IF Kind(p) = "sync"
    THEN /\ Land(p, file_id[p], RunCleanup("s_clean_ok", file_id[p], temp_files, disk))
         /\ UNCHANGED << registryVars, crashed >>
    ELSE /\ task_info' = [ task_info EXCEPT ![p] = TaskCompleted(@, res) ]
         /\ status_log' = [ status_log EXCEPT ![p] = Append(@, "completed") ]
         /\ Land(p, task_info[p].file_id,
                 RunCleanup("d_clean", task_info[p].file_id, temp_files, disk))
         /\ UNCHANGED << async_tasks, crashed >>

\* The caller's code after the analysis raised an Exception e.
AnalysisRaised(p, e) ==
    IF Kind(p) = "sync"
    THEN /\ Land(p, file_id[p], RunCleanup("s_clean_exc", file_id[p], temp_files, disk))
         /\ UNCHANGED << registryVars, crashed >>
    ELSE /\ task_info' = [ task_info EXCEPT ![p] = DriverExcept(@, e) ]
         /\ status_log' = [ status_log EXCEPT
               ![p] = @ \o StatusWrites(task_info[p], task_info'[p]) ]
         /\ crashed' = IF IsException(e) THEN crashed ELSE crashed \cup {p}
         /\ Land(p, task_info[p].file_id,
                 RunCleanup("d_clean", task_info[p].file_id, temp_files, disk))
         /\ UNCHANGED async_tasks

\* The first sleep ends: both "initializing" stages, then the first
\* iteration of the model-loading loop, which sleeps again.
AnalysisWake(p) ==
    /\ pc[p] = "a_sleep0"
    /\ tracker' = [ tracker EXCEPT ![p] = TrackerAtLoad0(@) ]
    /\ loop_i' = [ loop_i EXCEPT ![p] = 0 ]
    /\ pc' = [ pc EXCEPT ![p] = "a_load" ]
    /\ UNCHANGED << trackerVars, handlerVars, registryVars, crashed,
                    file_id, cl, ticks, active_trackers, upload, response,
                    reply, moreVars >>

\* A sleep of the model-loading loop ends: the next iteration, or after
\* the last one the engine is started in the executor, the progress
\* ticker is created and the coroutine awaits the engine.
AnalysisLoad(p) ==
    /\ pc[p] = "a_load"
    /\ IF loop_i[p] < LoadTicks
       THEN /\ loop_i' = [ loop_i EXCEPT ![p] = @ + 1 ]
            /\ tracker' = [ tracker EXCEPT
                              ![p] = UpdateStepProgress(@, 10 * (loop_i[p] + 1)) ]
            /\ UNCHANGED << pc, ticks >>
       ELSE /\ tracker' = [ tracker EXCEPT ![p] = TrackerAtEngine(@) ]
            /\ ticks' = [ ticks EXCEPT ![p] = 0 ]
            /\ pc' = [ pc EXCEPT ![p] = "a_engine" ]
            /\ UNCHANGED loop_i
    /\ UNCHANGED << trackerVars, handlerVars, registryVars, crashed,
                    file_id, cl, active_trackers, upload, response, reply, moreVars >>

\* update_progress_during_analysis: one sleep(2) ends while the engine
\* call is outstanding.
ProgressTick(p) ==
    /\ pc[p] = "a_engine"
    /\ ticks[p] < Len(TickerValues)
    /\ ticks' = [ ticks EXCEPT ![p] = @ + 1 ]
    /\ tracker' = [ tracker EXCEPT
                      ![p] = UpdateStepProgress(@, TickerValues[ticks[p] + 1]) ]
    /\ UNCHANGED << trackerVars, handlerVars, registryVars, crashed, pc,
                    file_id, cl, loop_i, active_trackers, upload, response,
                    reply, moreVars >>

\* allin1.analyze ends in the executor and the coroutine resumes: on a
\* result the remaining stages run and the analysis returns; an exception
\* of the engine reaches except Exception, which removes the tracker from
\* the registry and re-raises.  (A tracker removed from the registry can
\* no longer be read by anyone: the model keeps a fresh one in its place.)
EngineEnds(p) ==
    /\ pc[p] = "a_engine"
    /\ IF upload[p] = "ok"
       THEN /\ tracker' = [ tracker EXCEPT ![p] = TrackerAtReturn(@) ]
            /\ UNCHANGED active_trackers
            /\ AnalysisReturned(p, Translated(p))
       ELSE /\ active_trackers' = active_trackers \ {p}
            /\ tracker' = [ tracker EXCEPT ![p] = NewTracker ]
            /\ AnalysisRaised(p, EngineError)
    /\ UNCHANGED << trackerVars, disk, file_id, upload, reply, moreVars >>

\* analyze_single_file_with_progress from its call to its first sleep:
\* the tracker is created, which registers it, and set to initializing.
EnterAnalysis(p) ==
    /\ tracker' = [ tracker EXCEPT ![p] = TrackerAtSleep0 ]
    /\ active_trackers' = active_trackers \cup {p}
    /\ pc' = [ pc EXCEPT ![p] = "a_sleep0" ]

\* ------------------------------------------------------ analyze_audio_sync

\* The handler ends with an HTTPException raised before file_id is set:
\* except HTTPException finds file_id None and re-raises.
SyncRejected(p, code) ==
    /\ pc' = [ pc EXCEPT ![p] = "done" ]
    /\ response' = [ response EXCEPT ![p] = code ]
    /\ upload' = [ upload EXCEPT ![p] = IF code = 422 THEN "invalid" ELSE @ ]
    /\ UNCHANGED << temp_files, releases, file_id, cl, tracker,
                    active_trackers, loop_i, ticks >>

\* analyze_audio_sync from the request to the first suspension point of
\* the analysis: the timeout check, validate_audio_file, save_to_temp,
\* and the call wrapped in asyncio.wait_for.
SyncBegin(p) ==
    /\ p \in SyncProcs
    /\ CanStart(p)
    /\ \E t \in TimeoutArgs, valid \in BOOLEAN, w \in WriteOutcomes,
          e \in { "ok", "fail" } :
          IF t <= 0 \/ t > MaxTimeout
          THEN SyncRejected(p, 400) /\ UNCHANGED << disk, created_at >>
          ELSE IF ~valid
          THEN SyncRejected(p, 422) /\ UNCHANGED << disk, created_at >>
          ELSE IF w # "written"
          THEN /\ disk' = [ disk EXCEPT ![p] = DiskAfter(w) ]
               /\ SyncRejected(p, 500)
               /\ UNCHANGED created_at
          ELSE /\ disk' = [ disk EXCEPT ![p] = DiskAfter(w) ]
               /\ created_at' = [ created_at EXCEPT ![p] = now ]
               /\ file_id' = [ file_id EXCEPT ![p] = p ]
               /\ upload' = [ upload EXCEPT ![p] = e ]
               /\ IF CallBinds(SyncCallArgs)
                  THEN /\ temp_files' = temp_files \cup {p}
                       /\ EnterAnalysis(p)
                       /\ UNCHANGED << releases, cl, response, loop_i, ticks >>
                  ELSE /\ Land(p, p, RunCleanup("s_clean_exc", p,
                                                temp_files \cup {p}, disk'))
                       /\ UNCHANGED << tracker, active_trackers >>
    /\ UNCHANGED << trackerVars, registryVars, crashed, reply, cf_ret,
                    progVars, admin, owner, batchVars >>

\* The deadline of asyncio.wait_for expires while the analysis is
\* suspended, and the analysis task is cancelled.  In a sleep the
\* CancelledError leaves the analysis (except Exception does not catch
\* it), wait_for raises TimeoutError and the handler's except
\* asyncio.TimeoutError clause runs.  In the await of the executor the
\* CancelledError is caught by `except asyncio.CancelledError: pass`; the
\* code runs on and reads the unassigned `results`, the UnboundLocalError
\* reaches except Exception, which removes the tracker and re-raises, and
\* wait_for passes that exception on to the handler's except Exception.
DeadlineExpires(p) ==
    /\ p \in SyncProcs
    /\ pc[p] \in { "a_sleep0", "a_load", "a_engine" }
    /\ IF pc[p] = "a_engine"
       THEN /\ tracker' = [ tracker EXCEPT ![p] = NewTracker ]
            /\ active_trackers' = active_trackers \ {p}
            /\ Land(p, file_id[p],
                    RunCleanup("s_clean_exc", file_id[p], temp_files, disk))
       ELSE /\ UNCHANGED << tracker, active_trackers >>
            /\ Land(p, file_id[p],
                    RunCleanup("s_clean_timeout", file_id[p], temp_files, disk))
    /\ UNCHANGED << trackerVars, disk, registryVars, crashed, file_id,
                    upload, reply, moreVars >>

\* ---------------------------------------------------- submit_analysis_task

\* submit_analysis_task fails before file_id is set (HTTPException(422)
\* of the validation, or the HTTPException of save_to_temp): except
\* Exception finds file_id None and raises HTTPException(500).
SubmitRejected(p, u) ==
    /\ pc' = [ pc EXCEPT ![p] = "done" ]
    /\ response' = [ response EXCEPT ![p] = 500 ]
    /\ upload' = [ upload EXCEPT ![p] = u ]
    /\ UNCHANGED << temp_files, file_id, registryVars >>

\* submit_analysis_task: validate_audio_file, save_to_temp, the record is
\* stored in async_tasks and the background task is added.
SubmitTask(p) ==
    /\ p \in AsyncProcs
    /\ CanStart(p)
    /\ \E valid \in BOOLEAN, w \in WriteOutcomes, e \in { "ok", "fail" } :
          IF ~valid
          THEN SubmitRejected(p, "invalid") /\ UNCHANGED << disk, created_at >>
          ELSE IF w # "written"
          THEN /\ disk' = [ disk EXCEPT ![p] = DiskAfter(w) ]
               /\ SubmitRejected(p, "none")
               /\ UNCHANGED created_at
          ELSE /\ disk' = [ disk EXCEPT ![p] = DiskAfter(w) ]
               /\ temp_files' = temp_files \cup {p}
               /\ created_at' = [ created_at EXCEPT ![p] = now ]
               /\ file_id' = [ file_id EXCEPT ![p] = p ]
               /\ upload' = [ upload EXCEPT ![p] = e ]
               /\ async_tasks' = async_tasks \cup {p}
               /\ task_info' = [ task_info EXCEPT ![p] = TaskCreated(p) ]
               /\ status_log' = [ status_log EXCEPT
                                    ![p] = << TaskCreated(p).status >> ]
               /\ pc' = [ pc EXCEPT ![p] = "queued" ]
               /\ response' = [ response EXCEPT ![p] = 200 ]
    /\ UNCHANGED << trackerVars, releases, crashed, cl, loop_i, ticks,
                    tracker, active_trackers, reply, cf_ret, progVars, admin,
                    owner, batchVars >>

\* --------------------------------------------- _process_async_analysis_task

\* The background task from its start to its first suspension point.  It
\* returns at once when the task id is no longer registered.  Otherwise
\* the job enters processing and analyze_single_file_with_progress is
\* called with AsyncCallArgs positional arguments; a TypeError of the call
\* is handled by except Exception, and finally releases the temp file.
DriverStart(p) ==
    /\ p \in AsyncProcs
    /\ pc[p] = "queued"
    /\ IF p \notin async_tasks
       THEN /\ pc' = [ pc EXCEPT ![p] = "done" ]
            /\ UNCHANGED << handlerVars, registryVars, crashed, cl, tracker,
                            active_trackers, response, loop_i, ticks >>
       ELSE LET ti0 == task_info[p]
                ti1 == TaskProcessing(ti0)
                ti2 == DriverExcept(ti1, ArityError)
            IN  IF CallBinds(AsyncCallArgs)
                THEN /\ task_info' = [ task_info EXCEPT ![p] = ti1 ]
                     /\ status_log' = [ status_log EXCEPT
                                          ![p] = @ \o StatusWrites(ti0, ti1) ]
                     /\ EnterAnalysis(p)
                     /\ UNCHANGED << handlerVars, async_tasks, crashed, cl,
                                     response, loop_i, ticks >>
                ELSE /\ task_info' = [ task_info EXCEPT ![p] = ti2 ]
                     /\ status_log' = [ status_log EXCEPT
                           ![p] = @ \o StatusWrites(ti0, ti1)
                                    \o StatusWrites(ti1, ti2) ]
                     /\ crashed' = IF IsException(ArityError) THEN crashed
                                   ELSE crashed \cup {p}
                     /\ Land(p, ti2.file_id,
                             RunCleanup("d_clean", ti2.file_id, temp_files, disk))
                     /\ UNCHANGED << disk, async_tasks, tracker,
                                     active_trackers >>
    /\ UNCHANGED << trackerVars, file_id, upload, reply, moreVars >>

\* ------------------------------------------------ endpoints called by id

\* What an endpoint called with a task id answers: the status code and,
\* shaped like a job record, the fields its response model carries.
Reply(op, id, code, body) ==
    [ op |-> op, id |-> id, code |-> code, body |-> body ]

\* AsyncTaskStatus built by get_task_status.
StatusBody(ti) ==
    [ NoTask EXCEPT !.status = ti.status, !.progress = ti.progress,
                    !.current_step = ti.current_step,
                    !.message = ti.message, !.error = ti.error ]

\* AsyncAnalysisResult built by get_task_result.
ResultBody(ti) == [ NoTask EXCEPT !.result = ti.result ]

\* A lookup that finds every id.
RegisteredAlways(id, reg) == TRUE

\* task_id in async_tasks
Registered(id, reg) == id \in reg

\* A delete_task that refuses no job.
DeletableAlways(ti) == TRUE

\* delete_task refuses a job only while its status is "processing".
Deletable(ti) == ti.status # "processing"

\* delete_task: 404 for an unknown id, 400 while the job is processing,
\* otherwise the record is removed from the registry.
DeleteTask(id) ==
    /\ IF ~Registered(id, async_tasks)
       THEN /\ reply' = Reply("delete", id, 404, NoTask)
            /\ UNCHANGED async_tasks
       ELSE IF ~Deletable(task_info[id])
       THEN /\ reply' = Reply("delete", id, 400, NoTask)
            /\ UNCHANGED async_tasks
       ELSE /\ async_tasks' = async_tasks \ {id}
            /\ reply' = Reply("delete", id, 200, NoTask)
    /\ UNCHANGED << trackerVars, handlerVars, task_info, status_log,
                    procVars, moreVars >>

\* get_task_status: 404 for an unknown id, otherwise the job's status,
\* progress, phase, message and error.
GetTaskStatus(id) ==
    /\ reply' = IF ~Registered(id, async_tasks)
                THEN Reply("status", id, 404, NoTask)
                ELSE Reply("status", id, 200, StatusBody(task_info[id]))
    /\ UNCHANGED << trackerVars, handlerVars, registryVars, procVars, moreVars >>

\* A get_task_result that hands out whatever a job holds once it has left
\* the queue.
ResultReadyOnceStarted(ti) == ti.status # "pending"

\* get_task_result: task_info["status"] != "completed" is refused.
ResultReady(ti) == ti.status = "completed"

\* get_task_result: 404 for an unknown id, 400 unless the job is
\* completed, 500 when a completed record holds no result, otherwise the
\* result.
GetTaskResult(id) ==
    /\ reply' = IF ~Registered(id, async_tasks)
                THEN Reply("result", id, 404, NoTask)
                ELSE IF ~ResultReady(task_info[id])
                THEN Reply("result", id, 400, NoTask)
                ELSE IF task_info[id].result = NoResult
                THEN Reply("result", id, 500, NoTask)
                ELSE Reply("result", id, 200, ResultBody(task_info[id]))
    /\ UNCHANGED << trackerVars, handlerVars, registryVars, procVars, moreVars >>

NoReply == Reply("none", NoFile, 0, NoTask)

\* --------------------------------------------------------------- batches

\* No record under this batch id.
NoBatch == [ status |-> "none" ]

\* submit_batch_analysis has not answered.
NoResponse == [ code |-> 0, detail |-> "none" ]

\* The names analysis_batch binds at module level: its imports, logger,
\* router, analysis_service and batch_tasks.
BatchModuleNames ==
    { "time", "uuid", "List", "Dict", "Any", "Optional", "datetime",
      "APIRouter", "UploadFile", "File", "Form", "HTTPException",
      "BackgroundTasks", "structlog", "BatchAnalysisRequest",
      "BatchAnalysisResponse", "TaskStatus", "ErrorResponse", "ModelType",
      "AnalysisService", "validate_audio_file", "get_audio_duration",
      "memory_file_handler", "logger", "router", "analysis_service",
      "batch_tasks" }

\* The locals submit_batch_analysis has bound when its validation loop is
\* over: its parameters and what it assigned up to there.
SubmitLocals ==
    { "background_tasks", "files", "model", "priority", "visualize",
      "sonify", "include_activations", "include_embeddings", "overwrite",
      "continue_on_error", "task_id", "device", "validated_files",
      "total_size", "invalid_files", "i", "file", "is_valid", "error_msg",
      "file_info", "content", "file_size" }

\* The locals _process_batch_analysis_task has bound when it builds the
\* engine call of an item, the names of its local import included.
DriverLocals ==
    { "task_id", "task", "temp_file_paths", "request_params", "progress",
      "timing", "valid_files", "total_files", "i", "file_info",
      "overall_progress", "AnalysisRequest", "DeviceType",
      "single_request" }

\* Python finds a name in the function's locals or in the module.
NameBound(n, locals) == n \in locals \cup BatchModuleNames

\* Evaluating a name that is not bound.
NameError == "name is not defined"

\* An uploaded file: whether validate_audio_file accepts it and whether
\* the engine can analyse it.
FileKinds ==
    { [ valid |-> TRUE, ok |-> TRUE ], [ valid |-> TRUE, ok |-> FALSE ],
      [ valid |-> FALSE, ok |-> FALSE ] }

\* The file lists a client submits; a file is named by its place in the
\* list.
BatchRequests == UNION { [ 1..n -> FileKinds ] : n \in 1..MaxFiles }

\* submit_batch_analysis, the validation loop: the files put into
\* validated_files (v = TRUE) or invalid_files (v = FALSE), in order.
Validated(req, v) ==
    LET F[k \in 0..Len(req)] ==
            IF k = 0 THEN << >>
            ELSE IF req[k].valid = v THEN Append(F[k - 1], k) ELSE F[k - 1]
    IN  F[Len(req)]

\* The scalar keys of a batch's progress dict as the record is created:
\* no current file (0), no overall_progress key (-1).
NoCounts ==
    [ current_file |-> 0, completed_count |-> 0, failed_count |-> 0,
      overall_progress |-> -1 ]

\* submit_batch_analysis: the record stored in batch_tasks.  `progress` is
\* the dict the driving task keeps in its local of that name, `shown` the
\* dict task["progress"] refers to; the lists completed_files and
\* failed_files and the dict results are one object in both.
BatchCreated(b, req, coe) ==
    LET valid == Validated(req, TRUE)
    IN  [ status |-> "pending", file_count |-> Len(valid),
          valid_files |-> valid, invalid_files |-> Validated(req, FALSE),
          file_ids |-> [ k \in 1..Len(valid) |-> BatchFileId(b, k) ],
          continue_on_error |-> coe, completed_files |-> << >>,
          failed_files |-> << >>, results |-> {}, progress |-> NoCounts,
          shown |-> NoCounts ]

\* submit_batch_analysis: what save_to_temp wrote for the accepted files.
BatchDisk(rec, dk) ==
    [ f \in FileIds |->
        IF \E k \in 1..Len(rec.file_ids) : rec.file_ids[k] = f
        THEN [ file |-> TRUE, dir |-> TRUE ] ELSE dk[f] ]

\* What submit_batch_analysis does with the files req: the response, and
\* the record and the handles when a batch was created.  Its awaits before
\* the check of line 376 touch no shared state.  The check evaluates a
\* name that is bound nowhere; the NameError reaches except Exception,
\* which finds no file_ids among the locals and raises HTTPException(500).
\* An HTTPException(400) raised inside the try is caught the same way.
SubmitOutcome(b, req, coe) ==
    IF ~NameBound("validified_files", SubmitLocals)
    THEN [ code |-> 500, detail |-> NameError, created |-> FALSE ]
    ELSE IF Validated(req, TRUE) = << >>
    THEN [ code |-> 500, detail |-> "no valid audio file", created |-> FALSE ]
    ELSE [ code |-> 200, detail |-> "none", created |-> TRUE ]

\* submit_batch_analysis called for slot b.
SubmitBatch(b) ==
    /\ batch_pc[b] = "idle"
    /\ Cardinality(Started) < MaxRequests
    /\ IF b[2] = 1 THEN TRUE ELSE batch_pc[<< "batch", b[2] - 1 >>] # "idle"
    /\ \E req \in BatchRequests, coe \in BOOLEAN :
         LET out == SubmitOutcome(b, req, coe)
             rec == BatchCreated(b, req, coe)
         IN  /\ batch_req' = [ batch_req EXCEPT ![b] = req ]
             /\ batch_resp' =
                  [ batch_resp EXCEPT
                      ![b] = [ code |-> out.code, detail |-> out.detail ] ]
             /\ IF out.created
                THEN /\ batch_tasks' = batch_tasks \cup { b }
                     /\ batch_info' = [ batch_info EXCEPT ![b] = rec ]
                     /\ batch_log' =
                          [ batch_log EXCEPT
                              ![b] = << [ ev |-> "status", v |-> "pending" ] >> ]
                     /\ batch_pc' = [ batch_pc EXCEPT ![b] = "queued" ]
                     /\ temp_files' =
                          temp_files \cup
                            { rec.file_ids[k] : k \in 1..Len(rec.file_ids) }
                     /\ disk' = BatchDisk(rec, disk)
                     /\ created_at' =
                          [ f \in FileIds |->
                              IF \E k \in DOMAIN rec.file_ids :
                                    rec.file_ids[k] = f
                              THEN now ELSE created_at[f] ]
                ELSE /\ batch_pc' = [ batch_pc EXCEPT ![b] = "done" ]
                     /\ UNCHANGED << batch_tasks, batch_info, batch_log,
                                     temp_files, disk, created_at >>
    /\ UNCHANGED << trackerVars, releases, registryVars, procVars, reply,
                    cf_ret, progVars, admin, owner, batch_cl,
                    batch_cur >>

\* _process_batch_analysis_task, the head of an item's try: the counts
\* are taken before the item is analysed, and task["progress"] is given a
\* new dict made of progress's items and overall_progress (in tenths of a
\* percent).
BatchItemBegin(rec, i) ==
    LET p == [ rec.progress EXCEPT
                 !.current_file = rec.valid_files[i],
                 !.completed_count = Len(rec.completed_files),
                 !.failed_count = Len(rec.failed_files) ]
    IN  [ rec EXCEPT
            !.progress = p,
            !.shown = [ p EXCEPT !.overall_progress =
                                   ((i - 1) * 1000) \div rec.file_count ] ]

\* How the analysis of one item ends.  The argument list of
\* analyze_single_file is evaluated first and names Path, which the module
\* never imports; the call is not made.
ItemOutcome(f) ==
    IF ~NameBound("Path", DriverLocals) THEN NameError
    ELSE IF f.ok THEN "ok"
    ELSE EngineError

\* progress["results"][filename] = ...: one entry per file name.
ResultsPut(results, entry) ==
    { r \in results : r.name # entry.name } \cup { entry }

\* _process_batch_analysis_task: the item's result is stored.
BatchItemDone(rec, name) ==
    [ rec EXCEPT
        !.results = ResultsPut(@, [ name |-> name, success |-> TRUE,
                                    error |-> "none" ]),
        !.completed_files = Append(@, name) ]

\* An except clause that lists the failed item in completed_files as well.
BatchItemCountedTwice(rec, name, e) ==
    [ rec EXCEPT
        !.results = ResultsPut(@, [ name |-> name, success |-> FALSE,
                                    error |-> e ]),
        !.completed_files = Append(@, name),
        !.failed_files = Append(@, name) ]

\* _process_batch_analysis_task, the item's except Exception clause.
BatchItemFailed(rec, name, e) ==
    [ rec EXCEPT
        !.results = ResultsPut(@, [ name |-> name, success |-> FALSE,
                                    error |-> e ]),
        !.failed_files = Append(@, name) ]

RECURSIVE BatchLoop(_, _, _)

\* _process_batch_analysis_task, the for loop from the i-th accepted file:
\* the record it leaves and the files it attempted, in order.  With
\* continue_on_error off the loop breaks after the first failure.  No
\* iteration reaches an await, so the loop runs in one piece.
BatchLoop(rec, i, req) ==
    IF i > Len(rec.valid_files) THEN [ rec |-> rec, tried |-> << >> ]
    ELSE LET name == rec.valid_files[i]
             begun == BatchItemBegin(rec, i)
             out == ItemOutcome(req[name])
             after == IF out = "ok" THEN BatchItemDone(begun, name)
                      ELSE BatchItemFailed(begun, name, out)
             rest == IF out # "ok" /\ ~rec.continue_on_error
                     THEN [ rec |-> after, tried |-> << >> ]
                     ELSE BatchLoop(after, i + 1, req)
         IN  [ rec |-> rest.rec, tried |-> << name >> \o rest.tried ]

\* A driving task that reports a batch whose items all failed as failed.
BatchLoopEndByOutcome(rec) ==
    [ rec EXCEPT !.status = IF rec.completed_files = << >> THEN "failed"
                            ELSE "completed" ]

\* _process_batch_analysis_task after the loop: the status is set to
\* completed whatever it was, and task["progress"] is pointed back at the
\* driving task's own dict.
BatchLoopEnd(rec) ==
    LET p == [ rec.progress EXCEPT !.current_file = 0,
                                   !.overall_progress = 1000 ]
    IN  [ rec EXCEPT !.status = "completed", !.progress = p, !.shown = p ]

\* A finally clause that releases the handles of the attempted files only.
CleanupListTried(rec) ==
    SubSeq(rec.file_ids, 1, Len(rec.completed_files) + Len(rec.failed_files))

\* _process_batch_analysis_task, finally: the handles it iterates over.
CleanupList(rec) == rec.file_ids

RECURSIVE BatchClean(_, _, _, _)

\* The finally loop from the i-th handle on: cleanup_file is called handle
\* by handle until a call awaits the executor or the list is exhausted.
\* `called` are the handles cleanup_file was called on.
BatchClean(ids, i, tf, dk) ==
    IF i > Len(ids)
    THEN [ pc |-> "done", cl |-> "none", cur |-> 0, tf |-> tf, called |-> {} ]
    ELSE LET r == CfEnter(ids[i], tf, dk)
         IN  IF r.ret = "pending"
             THEN [ pc |-> "b_clean", cl |-> r.cl, cur |-> i, tf |-> r.tf,
                    called |-> { ids[i] } ]
             ELSE [ BatchClean(ids, i + 1, r.tf, dk) EXCEPT
                      !.called = @ \cup { ids[i] } ]

\* The driving task of batch b arrives at k in its finally clause.
BatchLand(b, k) ==
    /\ batch_pc' = [ batch_pc EXCEPT ![b] = k.pc ]
    /\ batch_cl' = [ batch_cl EXCEPT ![b] = k.cl ]
    /\ batch_cur' = [ batch_cur EXCEPT ![b] = k.cur ]
    /\ temp_files' = k.tf
    /\ releases' = [ f \in FileIds |->
                       IF f \in k.called THEN releases[f] + 1
                       ELSE releases[f] ]

\* A driving task that starts the analysis of every file before it awaits
\* any of them, as a gather over the items would.
DriverEventsGathered(tried, status) ==
    << [ ev |-> "status", v |-> "processing" ] >>
        \o [ k \in 1..Len(tried) |-> [ ev |-> "attempt", v |-> tried[k] ] ]
        \o [ k \in 1..Len(tried) |-> [ ev |-> "finished", v |-> tried[k] ] ]
        \o << [ ev |-> "status", v |-> status ] >>

\* What the driving task appends to the history of its batch: the status
\* it writes on entry; for each iteration of the for loop the file whose
\* analysis it starts and, once the awaited call has returned or raised and
\* the outcome is stored, the same file as finished; the status it writes
\* after the loop.
DriverEvents(tried, status) ==
    << [ ev |-> "status", v |-> "processing" ] >>
        \o [ j \in 1..(2 * Len(tried)) |->
                IF j % 2 = 1
                THEN [ ev |-> "attempt", v |-> tried[(j + 1) \div 2] ]
                ELSE [ ev |-> "finished", v |-> tried[j \div 2] ] ]
        \o << [ ev |-> "status", v |-> status ] >>

\* The background task _process_batch_analysis_task(b) runs from its
\* start to its first suspension point: the first cleanup_file call of
\* its finally clause that awaits the executor.
BatchDriverStart(b) ==
    /\ batch_pc[b] = "queued"
    /\ IF b \notin batch_tasks
       THEN /\ batch_pc' = [ batch_pc EXCEPT ![b] = "done" ]
            /\ UNCHANGED << batch_info, batch_log, batch_cl, batch_cur,
                            temp_files, releases >>
       ELSE LET begun == [ batch_info[b] EXCEPT !.status = "processing" ]
                run == BatchLoop(begun, 1, batch_req[b])
                rec == BatchLoopEnd(run.rec)
            IN  /\ batch_info' = [ batch_info EXCEPT ![b] = rec ]
                /\ batch_log' =
                     [ batch_log EXCEPT
                         ![b] = @ \o DriverEvents(run.tried, rec.status) ]
                /\ BatchLand(b, BatchClean(CleanupList(rec), 1,
                                           temp_files, disk))
    /\ UNCHANGED << trackerVars, disk, registryVars, procVars, reply,
                    soloVars, batch_tasks, batch_req, batch_resp >>

\* The executor call of the cleanup_file awaited by batch b's driving task
\* runs.
BatchCleanupIO(b) ==
    /\ batch_cl[b] \in { "await_remove", "await_rmdir" }
    /\ LET fid == CleanupList(batch_info[b])[batch_cur[b]]
           io == ExecutorRun(batch_cl[b], fid, disk)
       IN  /\ disk' = io.dk
           /\ batch_cl' = [ batch_cl EXCEPT ![b] = io.cl ]
    /\ UNCHANGED << trackerVars, temp_files, releases, registryVars,
                    procVars, reply, soloVars, batch_tasks, batch_info,
                    batch_log, batch_pc, batch_cur, batch_req, batch_resp >>

\* cleanup_file resumes after its executor call and the finally loop of
\* batch b's driving task runs on.
BatchCleanupResume(b) ==
    /\ batch_cl[b] \in { "remove_ok", "remove_err", "rmdir_ok", "rmdir_err" }
    /\ LET ids == CleanupList(batch_info[b])
           i == batch_cur[b]
           r == CfResume(batch_cl[b], ids[i], temp_files, disk)
       IN  IF r.ret = "pending"
           THEN BatchLand(b, [ pc |-> "b_clean", cl |-> r.cl, cur |-> i,
                               tf |-> r.tf, called |-> {} ])
           ELSE BatchLand(b, [ BatchClean(ids, i + 1, r.tf, disk) EXCEPT
                                 !.called = @ \ { ids[i] } ])
    /\ UNCHANGED << trackerVars, disk, registryVars, procVars, reply,
                    soloVars, batch_tasks, batch_info, batch_log, batch_req,
                    batch_resp >>

\* cancel_or_delete_batch_task(b): an unknown id is answered 404; a
\* pending or processing batch is marked cancelled; a completed, failed or
\* cancelled one is removed from batch_tasks.
CancelOrDeleteBatch(b) ==
    /\ IF b \notin batch_tasks
       THEN /\ reply' = Reply("cancel", b, 404, NoTask)
            /\ UNCHANGED << batch_tasks, batch_info, batch_log >>
       ELSE IF batch_info[b].status \in { "pending", "processing" }
       THEN /\ reply' = Reply("cancel", b, 200, NoTask)
            /\ batch_info' = [ batch_info EXCEPT ![b].status = "cancelled" ]
            /\ batch_log' =
                 [ batch_log EXCEPT
                     ![b] = Append(@, [ ev |-> "status", v |-> "cancelled" ]) ]
            /\ UNCHANGED batch_tasks
       ELSE /\ reply' = Reply("cancel", b, 200, NoTask)
            /\ batch_tasks' = batch_tasks \ { b }
            /\ UNCHANGED << batch_info, batch_log >>
    /\ UNCHANGED << trackerVars, handlerVars, registryVars, procVars,
                    soloVars, batch_pc, batch_cl, batch_cur, batch_req,
                    batch_resp >>

\* No storage endpoint is being served.
NoAdmin ==
    [ op |-> "none", phase |-> "idle", max_age |-> 0, ids |-> << >>,
      cur |-> 0, cl |-> "none", at |-> 0, tracked |-> {}, swept |-> {},
      freed |-> {}, raced |-> FALSE, code |-> 0 ]

\* No job is releasing its handle.
NoOwner == [ fid |-> NoFile, cl |-> "none", ret |-> "none" ]

\* cleanup_expired was not called.
NoSweep == [ op |-> "none", max_age |-> 0, code |-> 0, cleaned |-> {} ]

\* The state after the modules are imported, the job registry apart.
InitRest ==
    /\ pt = NewTracker
    /\ pt_valid = TRUE
    /\ pt_est = [ elapsed |-> 0, remaining |-> NoEstimate ]
    /\ releases = [ f \in FileIds |-> 0 ]
    /\ crashed = {}
    /\ pc = [ p \in Procs |-> "idle" ]
    /\ file_id = [ p \in Procs |-> NoFile ]
    /\ cl = [ p \in Procs |-> "none" ]
    /\ loop_i = [ p \in Procs |-> 0 ]
    /\ ticks = [ p \in Procs |-> 0 ]
    /\ tracker = [ p \in Procs |-> NewTracker ]
    /\ active_trackers = {}
    /\ upload = [ p \in Procs |-> "none" ]
    /\ response = [ p \in Procs |-> 0 ]
    /\ reply = NoReply
    /\ cf_ret = NoCall
    /\ now = 0
    /\ start_time = [ p \in Procs |-> 0 ]
    /\ prog_reply = NoSweep
    /\ created_at = [ f \in FileIds |-> 0 ]
    /\ admin = NoAdmin
    /\ owner = NoOwner

\* No file was written to the temp directory.
NoDisk == [ f \in FileIds |-> [ file |-> FALSE, dir |-> FALSE ] ]

\* No batch was submitted.
InitNoBatch ==
    /\ batch_tasks = {}
    /\ batch_info = [ b \in BatchProcs |-> NoBatch ]
    /\ batch_log = [ b \in BatchProcs |-> << >> ]
    /\ batch_pc = [ b \in BatchProcs |-> "idle" ]
    /\ batch_cl = [ b \in BatchProcs |-> "none" ]
    /\ batch_cur = [ b \in BatchProcs |-> 0 ]
    /\ batch_req = [ b \in BatchProcs |-> << >> ]
    /\ batch_resp = [ b \in BatchProcs |-> NoResponse ]

InitCommon ==
    /\ InitRest
    /\ InitNoBatch
    /\ disk = NoDisk
    /\ temp_files = {}
    /\ async_tasks = {}
    /\ task_info = [ p \in AsyncProcs |-> NoTask ]
    /\ status_log = [ p \in AsyncProcs |-> << >> ]

InitTracker == InitCommon

NextTracker ==
    \/ \E s \in StepSet, p \in ProgressArgs : PtUpdateStep(s, p)
    \/ \E p \in ProgressArgs : PtUpdateStepProgress(p)
    \/ PtComplete
    \/ \E e \in ElapsedArgs : PtGetStatus(e)

SpecTracker == InitTracker /\ [][NextTracker]_vars

\* ----------------------------------------------------------- the job flows

Init == InitCommon

Next ==
    \/ \E p \in SyncProcs : SyncBegin(p)
    \/ \E p \in SyncProcs : DeadlineExpires(p)
    \/ \E p \in AsyncProcs : SubmitTask(p)
    \/ \E p \in AsyncProcs : DriverStart(p)
    \/ \E b \in BatchProcs : SubmitBatch(b)
    \/ \E p \in AsyncProcs : pc[p] # "idle" /\ DeleteTask(p)
    \/ \E p \in AsyncProcs : pc[p] # "idle" /\ GetTaskStatus(p)
    \/ \E p \in AsyncProcs : pc[p] # "idle" /\ GetTaskResult(p)
    \/ \E p \in Procs : AnalysisWake(p)
    \/ \E p \in Procs : AnalysisLoad(p)
    \/ \E p \in Procs : ProgressTick(p)
    \/ \E p \in Procs : EngineEnds(p)
    \/ \E p \in Procs : CleanupIO(p)
    \/ \E p \in Procs : CleanupResume(p)

Spec == Init /\ [][Next]_vars

\* ------------------------------------- the endpoints that take a task id

\* The task ids of the registry the endpoints are exercised on.
TaskIds == { << "async", i >> : i \in 1..MaxTasks }

\* The records _process_async_analysis_task can leave for a job: as
\* created, in processing, completed with the translated result, or
\* failed with the error of the call or of the engine.
RecordsOf(id) ==
    LET created == TaskCreated(id)
        processing == TaskProcessing(created)
    IN  { created, processing, TaskCompleted(processing, Translated(id)) }
          \cup { TaskFailed(processing, e) : e \in { ArityError, EngineError } }

\* The statuses a record went through.
StatusPath(ti) ==
    CASE ti.status = "pending" -> << "pending" >>
      [] ti.status = "processing" -> << "pending", "processing" >>
      [] OTHER -> << "pending", "processing", ti.status >>

\* A registry holding MaxTasks jobs, each at any point of its life; the
\* temp file of a job that is not over yet is still tracked.
InitRegistry ==
    /\ InitRest
    /\ InitNoBatch
    /\ disk = NoDisk
    /\ async_tasks = TaskIds
    /\ task_info \in [ TaskIds -> UNION { RecordsOf(id) : id \in TaskIds } ]
    /\ \A id \in TaskIds : task_info[id] \in RecordsOf(id)
    /\ status_log = [ id \in TaskIds |-> StatusPath(task_info[id]) ]
    /\ temp_files =
         { id \in TaskIds : task_info[id].status \in { "pending", "processing" } }

NextRegistry ==
    \/ \E id \in TaskIds : DeleteTask(id)
    \/ \E id \in TaskIds : GetTaskStatus(id)
    \/ \E id \in TaskIds : GetTaskResult(id)

SpecRegistry == InitRegistry /\ [][NextRegistry]_vars

\* ------------------------------------------------------------- properties

\* C1: whatever the outcome of a fire-and-wait request (success, engine
\* failure, validation failure, timeout), once the request has ended no
\* temp-file handle it materialized is still tracked by the manager.
C1_SyncHandleReleased ==
    \A s \in SyncProcs : pc[s] = "done" => s \notin temp_files

\* A fire-and-wait request that materialized its file and ended with the
\* timeout response.
C1_Witness ==
    \E s \in SyncProcs :
        /\ pc[s] = "done"
        /\ file_id[s] = s
        /\ response[s] = 504
        /\ ~disk[s].file

\* The jobs that materialized a temp file and have run to their end: a
\* fire-and-wait request that was answered, a submitted job its driving
\* task took up and has finished with.
RanToEnd(p) ==
    /\ pc[p] = "done"
    /\ file_id[p] = p
    /\ Kind(p) = "async" => Len(status_log[p]) > 1

\* C2: for every job that materialized a temp file and ran to its end,
\* on success, engine failure or timeout, cleanup_file was called on its
\* handle exactly once, in the fire-and-wait flow and in the
\* submit-and-poll flow.
C2_ReleasedExactlyOnce ==
    \A p \in Procs : RanToEnd(p) => releases[p] = 1

\* C3: once a submitted job's record is gone from the registry and its
\* driving task has ended, the handle the job owned is no longer tracked.
C3_ReleasedAtRemoval ==
    \A p \in AsyncProcs :
        (file_id[p] = p /\ p \notin async_tasks /\ pc[p] = "done")
            => p \notin temp_files

\* C6: a submit-and-poll job whose engine call succeeds ends completed,
\* with progress 100 and the translated result recorded; stated for the
\* jobs the driving task took up and has finished with.
C6_SuccessCompletes ==
    \A p \in AsyncProcs :
        (upload[p] = "ok" /\ pc[p] = "done" /\ Len(status_log[p]) > 1)
            => /\ task_info[p].status = "completed"
               /\ task_info[p].progress = 1000
               /\ task_info[p].result = Translated(p)

\* C7: no exception escapes from a driving task; a job an exception was
\* raised in is failed, with str(e) in its error field and in its
\* message, and a status poll answers normally with that record.
C7_FailureCaptured ==
    /\ crashed = {}
    /\ \A p \in AsyncProcs :
          task_info[p].status = "failed"
              => /\ task_info[p].error \in { ArityError, EngineError }
                 /\ task_info[p].message.detail = task_info[p].error
                 /\ task_info[p].message.text = "analysis failed: "
    /\ (reply.op = "status" /\ reply.code = 200)
          => (reply.body.status = "failed"
                 => reply.body.error \in { ArityError, EngineError })

\* A status poll has answered with the failed job and its error.
C7_Witness ==
    /\ reply.op = "status"
    /\ reply.code = 200
    /\ reply.body.status = "failed"
    /\ reply.body.error = task_info[reply.id].error
    /\ pc[reply.id] = "done"

\* The sequences of statuses a job may have gone through.
StatusPaths ==
    { << >>, << "pending" >>, << "pending", "processing" >>,
      << "pending", "processing", "completed" >>,
      << "pending", "processing", "failed" >> }

\* C8: the statuses assigned to a job follow pending -> processing ->
\* completed or pending -> processing -> failed, and no step changes the
\* record (status, progress, result, error) of a completed or failed job.
C8_StatusPathAndTerminalFrozen ==
    /\ [](\A p \in AsyncProcs : status_log[p] \in StatusPaths)
    /\ [][\A p \in AsyncProcs :
             task_info[p].status \in { "completed", "failed" }
                 => task_info'[p] = task_info[p]]_vars

\* A job went through pending, processing and failed, in the registry.
C8_Witness ==
    \E p \in AsyncProcs :
        /\ status_log[p] = << "pending", "processing", "failed" >>
        /\ p \in async_tasks
        /\ task_info[p].progress = 50

C10_DeleteSucceedsOnce ==
    [][\A id \in TaskIds :
          task_info[id].status = "completed"
              => IF id \in async_tasks
                 THEN (reply'.op = "delete" /\ reply'.id = id)
                          => (reply'.code = 200 /\ id \notin async_tasks')
                 ELSE /\ id \notin async_tasks'
                      /\ reply'.id = id => reply'.code = 404]_vars

\* A second delete_task of a completed job has answered 404.
C10_Witness ==
    /\ reply.op = "delete"
    /\ reply.code = 404
    /\ task_info[reply.id].status = "completed"
    /\ reply.id \notin async_tasks

\* C11: get_task_result answers with a result payload only for a completed
\* job; for a pending, processing or failed job it answers with the error
\* status 400, for an unknown id with 404, and it changes neither the
\* registry nor any record.
C11_ResultOnlyWhenCompleted ==
    [][\A id \in TaskIds :
          (reply'.op = "result" /\ reply'.id = id)
              => /\ async_tasks' = async_tasks
                 /\ task_info' = task_info
                 /\ temp_files' = temp_files
                 /\ IF id \notin async_tasks THEN reply'.code = 404
                    ELSE IF task_info[id].status = "completed"
                    THEN /\ reply'.code = 200
                         /\ reply'.body.result = Translated(id)
                    ELSE /\ reply'.code = 400
                         /\ reply'.body.result = NoResult]_vars

\* get_task_result has refused a failed job that is registered.
C11_Witness ==
    /\ reply.op = "result"
    /\ reply.code = 400
    /\ reply.id \in async_tasks
    /\ task_info[reply.id].status = "failed"

\* C19: a fire-and-wait request that is cut short by its deadline, at
\* whatever point of the analysis, ends with the timeout response 504 and
\* with its temp file released.  The engine accepts the upload of the
\* requests considered, so only the deadline can keep one from its 200.
C19_DeadlineEndsInTimeout ==
    \A s \in SyncProcs :
        (pc[s] = "done" /\ file_id[s] = s /\ upload[s] = "ok"
            /\ response[s] # 200)
            => (response[s] = 504 /\ s \notin temp_files)

\* ------------------------------------------- the batch driving task

\* The batch whose driving task is exercised.
DrivenBatch == << "batch", 1 >>

\* The batches submit_batch_analysis would register: at least one file is
\* accepted.
AcceptedRequests == { req \in BatchRequests : Validated(req, TRUE) # << >> }

\* One batch stands registered as lines 419-454 of submit_batch_analysis
\* write it, its driving task queued, its accepted files saved and tracked.
InitBatch ==
    /\ InitRest
    /\ async_tasks = {}
    /\ task_info = [ p \in AsyncProcs |-> NoTask ]
    /\ status_log = [ p \in AsyncProcs |-> << >> ]
    /\ \E req \in AcceptedRequests, coe \in BOOLEAN :
         LET rec == BatchCreated(DrivenBatch, req, coe)
         IN  /\ batch_tasks = { DrivenBatch }
             /\ batch_info =
                  [ b \in BatchProcs |->
                      IF b = DrivenBatch THEN rec ELSE NoBatch ]
             /\ batch_req =
                  [ b \in BatchProcs |->
                      IF b = DrivenBatch THEN req ELSE << >> ]
             /\ batch_resp =
                  [ b \in BatchProcs |->
                      IF b = DrivenBatch
                      THEN [ code |-> 200, detail |-> "none" ]
                      ELSE NoResponse ]
             /\ temp_files = { rec.file_ids[k] : k \in 1..Len(rec.file_ids) }
             /\ disk = BatchDisk(rec, NoDisk)
    /\ batch_log =
         [ b \in BatchProcs |->
             IF b = DrivenBatch
             THEN << [ ev |-> "status", v |-> "pending" ] >> ELSE << >> ]
    /\ batch_pc =
         [ b \in BatchProcs |-> IF b = DrivenBatch THEN "queued" ELSE "idle" ]
    /\ batch_cl = [ b \in BatchProcs |-> "none" ]
    /\ batch_cur = [ b \in BatchProcs |-> 0 ]

NextBatch ==
    \/ BatchDriverStart(DrivenBatch)
    \/ BatchCleanupIO(DrivenBatch)
    \/ BatchCleanupResume(DrivenBatch)
    \/ CancelOrDeleteBatch(DrivenBatch)

SpecBatch == InitBatch /\ [][NextBatch]_vars

\* The driving task of batch b went past its registry check.
BatchRan(b) ==
    \E k \in DOMAIN batch_log[b] :
        batch_log[b][k].ev = "status" /\ batch_log[b][k].v = "processing"

\* The files the driving task of batch b attempted, in order.
Attempts(b) ==
    LET tried == SelectSeq(batch_log[b], LAMBDA e : e.ev = "attempt")
    IN  [ k \in 1..Len(tried) |-> tried[k].v ]

\* The accepted files of batch b the engine can (ok = TRUE) or cannot
\* analyse, in submission order.
FilesByOutcome(b, ok) ==
    SelectSeq(batch_info[b].valid_files, LAMBDA n : batch_req[b][n].ok = ok)

\* C12: a batch run with continue_on_error on attempts every accepted file
\* once in submission order, lists the files whose analysis succeeds in
\* completed_files and those whose analysis fails in failed_files, and ends
\* completed.
C12_ContinueOnError ==
    \A b \in BatchProcs :
        ( BatchRan(b) /\ batch_info[b].continue_on_error )
        => /\ Attempts(b) = batch_info[b].valid_files
           /\ batch_info[b].completed_files = FilesByOutcome(b, TRUE)
           /\ batch_info[b].failed_files = FilesByOutcome(b, FALSE)
           /\ batch_info[b].status = "completed"

\* The accepted files of batch b up to and including the first one the
\* engine cannot analyse.
UpToFirstFailure(b) ==
    LET files == batch_info[b].valid_files
        bad == { k \in 1..Len(files) : ~batch_req[b][files[k]].ok }
    IN  IF bad = {} THEN files
        ELSE SubSeq(files, 1, CHOOSE k \in bad : \A j \in bad : k <= j)

\* C13: a batch run with continue_on_error off stops at the first file
\* whose analysis fails: the files before it are in completed_files, it is
\* in failed_files, and no later file is attempted or recorded.
C13_StopOnFirstError ==
    \A b \in BatchProcs :
        ( BatchRan(b) /\ ~batch_info[b].continue_on_error )
        => LET upto == UpToFirstFailure(b)
           IN  /\ Attempts(b) = upto
               /\ batch_info[b].completed_files
                    = SelectSeq(upto, LAMBDA n : batch_req[b][n].ok)
               /\ batch_info[b].failed_files
                    = SelectSeq(upto, LAMBDA n : ~batch_req[b][n].ok)
               /\ { r.name : r \in batch_info[b].results }
                    = { upto[k] : k \in 1..Len(upto) }

\* C14: a submission with files that pass validation and files that fail
\* it creates a batch of the accepted files, the rejected ones recorded in
\* invalid_files.
C14_InvalidFileDoesNotAbort ==
    \A b \in BatchProcs :
        ( /\ batch_pc[b] # "idle"
          /\ Validated(batch_req[b], TRUE) # << >>
          /\ Validated(batch_req[b], FALSE) # << >> )
        => /\ batch_resp[b].code = 200
           /\ batch_info[b].status # "none"
           /\ batch_info[b].file_count = Len(Validated(batch_req[b], TRUE))
           /\ batch_info[b].invalid_files = Validated(batch_req[b], FALSE)

\* C15: a submission in which no file passes validation is refused with the
\* no-valid-input error; no batch is registered and no handle is tracked.
C15_NoValidInputRefused ==
    \A b \in BatchProcs :
        ( batch_pc[b] # "idle" /\ Validated(batch_req[b], TRUE) = << >> )
        => /\ batch_resp[b].detail = "no valid audio file"
           /\ b \notin batch_tasks
           /\ temp_files \cap BatchFileIds = {}

\* C16: once a batch is marked cancelled its driving task starts no further
\* item: no attempt follows a cancellation in the history of a batch.
C16_NoItemAfterCancel ==
    \A b \in BatchProcs :
        \A j, k \in DOMAIN batch_log[b] :
            ( /\ batch_log[b][j].ev = "status"
              /\ batch_log[b][j].v = "cancelled"
              /\ batch_log[b][k].ev = "attempt" )
            => k < j

C18_BatchHandlesReleased ==
    \A b \in BatchProcs :
        ( BatchRan(b) /\ batch_pc[b] = "done" )
        => \A k \in 1..Len(batch_info[b].file_ids) :
               /\ batch_info[b].file_ids[k] \notin temp_files
               /\ releases[batch_info[b].file_ids[k]] >= 1

\* A driving task that stopped on the first error, with files it never
\* attempted, has ended.
C18_Witness ==
    \E b \in BatchProcs :
        /\ BatchRan(b)
        /\ batch_pc[b] = "done"
        /\ ~batch_info[b].continue_on_error
        /\ Len(Attempts(b)) < batch_info[b].file_count
        /\ \A k \in 1..Len(batch_info[b].file_ids) :
               batch_info[b].file_ids[k] \notin temp_files

\* ------------------------------------ the temp-file manager on its own

\* What a handle can have on disk: its file inside its directory, the
\* directory alone, or nothing.
DiskStates ==
    { d \in [ file : BOOLEAN, dir : BOOLEAN ] : d.file => d.dir }

\* Some handles were handed out by save_to_temp and are tracked; what they
\* have on disk may have been removed behind the manager's back.
InitRelease ==
    /\ InitRest
    /\ InitNoBatch
    /\ async_tasks = {}
    /\ task_info = [ p \in AsyncProcs |-> NoTask ]
    /\ status_log = [ p \in AsyncProcs |-> << >> ]
    /\ temp_files \in SUBSET ReleaseIds
    /\ \E d \in [ ReleaseIds -> DiskStates ] :
         disk = [ f \in FileIds |->
                    IF f \in temp_files THEN d[f] ELSE NoDisk[f] ]

NextRelease == \E fid \in ReleaseIds \cup { NoFile } : ReleaseCall(fid)

SpecRelease == InitRelease /\ [][NextRelease]_vars

\* C20: a cleanup_file call on a handle that is not tracked (never handed
\* out, or released before) returns false and leaves the tracked set as it
\* was; the first call on a tracked handle returns true and untracks it, so
\* of two calls on one handle the second returns false.
C20_ReleaseUnknownIsFalse ==
    [][ \A f \in ReleaseIds \cup { NoFile } :
          ( /\ cf_ret'.fid = f
            /\ f \in ReleaseIds => releases'[f] = releases[f] + 1 )
          => /\ cf_ret'.ret \in { "true", "false" }
             /\ IF f \in temp_files
                THEN cf_ret'.ret = "true" /\ temp_files' = temp_files \ { f }
                ELSE cf_ret'.ret = "false" /\ temp_files' = temp_files
             /\ ( f \in ReleaseIds /\ releases[f] >= 1 )
                  => cf_ret'.ret = "false" ]_vars

\* A handle released twice: its second call answered false.
C20_Witness ==
    \E f \in ReleaseIds :
        /\ releases[f] = 2
        /\ cf_ret = [ fid |-> f, ret |-> "false" ]
        /\ f \notin temp_files

\* C21: a request whose save_to_temp failed has ended with no handle
\* tracked and with neither a directory nor a file of its own left on disk.
C21_FailedWriteLeavesNothing ==
    \A p \in Procs :
        ( pc[p] = "done" /\ file_id[p] = NoFile )
        => /\ p \notin temp_files
           /\ ~disk[p].dir
           /\ ~disk[p].file

\* ------------------------------------- the tracker registry on its own

\* max_age_hours = +infinity, which no age exceeds.
Infinity == -1

\* cleanup_expired, the loop over _active_trackers: the ids whose age in
\* hours exceeds max_age_hours at the clock reading t.
ExpiredIds(reg, st, t, m) ==
    { r \in reg : m # Infinity /\ t - st[r] > m * HourTicks }

\* cleanup_expired_progress: the largest max_age_hours it accepts (7 days).
MaxAgeHours == 168

\* The max_age_hours values cleanup_expired is called with, and the ones
\* sent to cleanup_expired_progress, whose parameter is an int.
SweepArgs == { 0, 1, Infinity }

EndpointArgs == { 0, 1, MaxAgeHours, MaxAgeHours + 1 }

\* ProgressTracker(request_id): __init__ reads the clock and registers the
\* tracker; the clock has moved on when the constructor returns.
TrackerCreated(p) ==
    /\ p \notin active_trackers
    /\ now < MaxClock
    /\ active_trackers' = active_trackers \cup { p }
    /\ start_time' = [ start_time EXCEPT ![p] = now ]
    /\ tracker' = [ tracker EXCEPT ![p] = NewTracker ]
    /\ now' = now + 1
    /\ UNCHANGED << trackerVars, handlerVars, registryVars, crashed, pc,
                    file_id, cl, loop_i, ticks, upload, response, reply,
                    cf_ret, prog_reply, storeVars, batchVars >>

\* Time passes.
ClockAdvances ==
    /\ now < MaxClock
    /\ now' = now + 1
    /\ UNCHANGED << trackerVars, handlerVars, registryVars, procVars, reply,
                    cf_ret, start_time, prog_reply, storeVars, batchVars >>

\* ProgressTracker.cleanup_expired(m) called directly.
CleanupExpired(m) ==
    /\ LET gone == ExpiredIds(active_trackers, start_time, now, m)
       IN  /\ active_trackers' = active_trackers \ gone
           /\ prog_reply' = [ op |-> "cleanup_expired", max_age |-> m,
                              code |-> 0, cleaned |-> gone ]
    /\ UNCHANGED << trackerVars, handlerVars, registryVars, crashed, pc,
                    file_id, cl, loop_i, ticks, tracker, upload, response,
                    reply, cf_ret, now, start_time, storeVars,
                    batchVars >>

\* POST /progress/cleanup: cleanup_expired_progress(m) refuses m <= 0 and
\* m > 168 with HTTP 400 and calls cleanup_expired(m) otherwise.
CleanupExpiredProgress(m) ==
    /\ IF m <= 0 \/ m > MaxAgeHours
       THEN /\ prog_reply' = [ op |-> "endpoint", max_age |-> m,
                               code |-> 400, cleaned |-> {} ]
            /\ UNCHANGED active_trackers
       ELSE LET gone == ExpiredIds(active_trackers, start_time, now, m)
            IN  /\ active_trackers' = active_trackers \ gone
                /\ prog_reply' = [ op |-> "endpoint", max_age |-> m,
                                   code |-> 200, cleaned |-> gone ]
    /\ UNCHANGED << trackerVars, handlerVars, registryVars, crashed, pc,
                    file_id, cl, loop_i, ticks, tracker, upload, response,
                    reply, cf_ret, now, start_time, storeVars,
                    batchVars >>

InitProgress == InitCommon

NextProgress ==
    \/ \E p \in Procs : TrackerCreated(p)
    \/ ClockAdvances
    \/ \E m \in SweepArgs : CleanupExpired(m)
    \/ \E m \in EndpointArgs : CleanupExpiredProgress(m)

SpecProgress == InitProgress /\ [][NextProgress]_vars

\* A step of SpecProgress that is a sweep of the registry.
SweepStep ==
    /\ prog_reply'.op # "none"
    /\ now' = now
    /\ active_trackers' \subseteq active_trackers

\* C22: a sweep of the tracker registry with max_age_hours = 0, through
\* cleanup_expired or through the endpoint, leaves the registry empty, and
\* one with max_age_hours = +infinity, or with the largest value the
\* endpoint takes, leaves it as it was.
C22_ZeroSweepsAllInfinityNone ==
    [][ SweepStep
        => /\ prog_reply'.max_age = 0 => active_trackers' = {}
           /\ prog_reply'.max_age \in { Infinity, MaxAgeHours }
                => active_trackers' = active_trackers ]_vars

\* C23: an upload that validate_audio_file refuses at submit_analysis_task
\* is answered 422, with no job record and no temp-file handle.
C23_InvalidUploadIs422 ==
    \A p \in AsyncProcs :
        ( pc[p] = "done" /\ upload[p] = "invalid" )
        => /\ response[p] = 422
           /\ p \notin async_tasks
           /\ p \notin temp_files

\* C24: a submitted job whose upload the engine accepts does not leave
\* Processing with the progress it entered Processing with: the progress
\* get_task_status reports has moved forward meanwhile.
C24_ProgressMovesWhileProcessing ==
    \A p \in AsyncProcs :
        ( /\ upload[p] = "ok"
          /\ task_info[p].status \in { "completed", "failed" } )
        => StatusBody(task_info[p]).progress
             > TaskProcessing(TaskCreated(p)).progress

\* C25: during one run of analyze_single_file_with_progress the
\* overall_progress of the run's tracker, read between two steps of the
\* run while the tracker is registered, never decreases.
C25_RunProgressNonDecreasing ==
    [][ \A p \in Procs :
          ( p \in active_trackers /\ p \in active_trackers' )
          => tracker'[p].overall_progress >= tracker[p].overall_progress
      ]_vars

\* The sum of the weights of the phases before the i-th of the declared
\* order, in hundredths of a percent.
WeightBefore(i) ==
    LET F[k \in 0..Len(Steps)] ==
            IF k = 0 THEN 0 ELSE F[k - 1] + StepWeight(Steps[k]) * 100
    IN  F[i - 1]

\* C26: overall_progress is the sum of the weights of the phases before
\* the current one in the declared order plus the current phase's weight
\* times step_progress / 100, as a percentage rounded to one decimal.
C26_OverallIsWeightedSum ==
    pt.overall_progress
      = Round1(WeightBefore(StepIndex(pt.current_step))
                 + StepWeight(pt.current_step) * pt.step_progress)

\* C27: the current phase of a tracker never moves backward in the phase
\* order: an update_step naming an earlier phase is refused or ignored.
C27_PhaseNeverMovesBackward ==
    [][ StepIndex(pt'.current_step) >= StepIndex(pt.current_step) ]_vars

\* C28: after any calls of update_step, update_step_progress and complete
\* the overall progress lies between 0 and 100.
C28_OverallWithinRange ==
    pt.overall_progress >= 0 /\ pt.overall_progress <= 1000

\* The midpoints of the phases after the i-th of the declared order, in
\* half seconds.
EstimateAfter(i) ==
    SumOver({ s \in StepSet : StepIndex(s) > i },
            [ s \in StepSet |-> StepEstimate(s) ])

\* The estimate get_status made last was made for the tracker as it is.
EstimateIsCurrent == pt_est.remaining = EstimateRemaining(pt, pt_est.elapsed)

\* C29: the remaining-time estimate of a tracker that is not completed is
\* the rest of the midpoint of its phase, floored at zero, plus the
\* midpoints of the phases after it in the phase order (in whole seconds,
\* as the estimate is shown); for a completed tracker there is none.
C29_EstimateIsMidpointSum ==
    EstimateIsCurrent
    => IF pt.current_step = "completed" THEN pt_est.remaining = NoEstimate
       ELSE LET mid == StepEstimate(pt.current_step)
                rest == IF mid - 2 * pt_est.elapsed > 0
                        THEN mid - 2 * pt_est.elapsed ELSE 0
            IN  pt_est.remaining
                  = (rest + EstimateAfter(StepIndex(pt.current_step))) \div 2

\* The number of events of kind ev among the first n events of the history
\* of batch b.
EventsUpTo(b, n, ev) ==
    Cardinality({ k \in 1..n : batch_log[b][k].ev = ev })

\* The items of batch b whose analysis is in flight after the first n
\* events of its history.
InFlight(b, n) ==
    EventsUpTo(b, n, "attempt") - EventsUpTo(b, n, "finished")

BatchStatusBody(rec) ==
    [ status |-> rec.status,
      overall_progress |-> IF rec.shown.overall_progress = -1 THEN 0
                           ELSE rec.shown.overall_progress,
      current_file |-> rec.shown.current_file,
      completed_files |-> rec.completed_files,
      failed_files |-> rec.failed_files,
      file_count |-> rec.file_count,
      completed_count |-> rec.shown.completed_count,
      failed_count |-> rec.shown.failed_count ]

\* The items of a batch that have finished, successfully or not.
ItemsAttempted(rec) == Len(rec.completed_files) + Len(rec.failed_files)

\* C31: the aggregate progress a registered batch reports is the share of
\* its items that have finished, items_attempted / total_items, as a
\* percentage (in tenths of a percent).
C31_AggregateIsAttemptedShare ==
    \A b \in batch_tasks :
        BatchStatusBody(batch_info[b]).overall_progress
            = (ItemsAttempted(batch_info[b]) * 1000)
                  \div batch_info[b].file_count

\* The statuses of a batch the specification calls terminal.
BatchTerminal == { "completed", "failed", "cancelled" }

\* The per-item outcomes of a batch.
ItemOutcomes(rec) ==
    << rec.results, rec.completed_files, rec.failed_files >>

\* C32: once the status of a batch is completed, failed or cancelled, its
\* results map, completed_files and failed_files never change again.
C32_TerminalOutcomesFrozen ==
    [][ \A b \in BatchProcs :
          ( /\ batch_info[b] # NoBatch
            /\ batch_info[b].status \in BatchTerminal )
          => /\ batch_info'[b] # NoBatch
             /\ ItemOutcomes(batch_info'[b]) = ItemOutcomes(batch_info[b])
      ]_vars

\* C33: in every state of a batch completed_count + failed_count is at
\* most file_count: in the counters the driving task keeps, in those the
\* status endpoint reports, and in the lengths of the two lists they are
\* taken from.
C33_CountsWithinFileCount ==
    \A b \in BatchProcs :
        batch_info[b] # NoBatch
        => LET rec == batch_info[b]
               body == BatchStatusBody(rec)
           IN  /\ body.completed_count + body.failed_count <= rec.file_count
               /\ rec.progress.completed_count + rec.progress.failed_count
                     <= rec.file_count
               /\ ItemsAttempted(rec) <= rec.file_count

\* A batch whose driving task went through every one of its files, the
\* counters it reports above zero.
C33_Witness ==
    \E b \in BatchProcs :
        /\ batch_info[b] # NoBatch
        /\ BatchRan(b)
        /\ batch_info[b].file_count = MaxFiles
        /\ ItemsAttempted(batch_info[b]) = batch_info[b].file_count
        /\ BatchStatusBody(batch_info[b]).failed_count > 0

\* ------------------------------------------------ the temp-file sweeps

\* The limit cleanup_expired_temp_files puts on max_age_minutes.
MaxAgeMinutes == 1440

\* The max_age_minutes schedule_cleanup passes to cleanup_expired_files.
ScheduledMaxAge == 30

\* A sweep that takes a handle whose age is exactly max_age_minutes too.
ExpiredFilesInclusive(tf, created, t, m) ==
    { f \in tf : t - created[f] >= m * MinuteTicks }

\* cleanup_expired_files, its first loop: the tracked handles whose
\* age_minutes = (current_time - created_at) / 60 is above
\* max_age_minutes.
ExpiredFiles(tf, created, t, m) ==
    { f \in tf : t - created[f] > m * MinuteTicks }

RECURSIVE InOrder(_, _)

\* The handles S in the order the dict temp_files holds them, the order
\* they were saved in; handles saved at the same clock reading come in a
\* fixed order.
InOrder(S, created) ==
    IF S = {} THEN << >>
    ELSE LET f == CHOOSE x \in S : \A y \in S : created[x] <= created[y]
         IN  << f >> \o InOrder(S \ { f }, created)

\* The loops a storage endpoint runs, one after the other:
\*   expired        cleanup_expired_files(max_age_minutes), called by
\*                  cleanup_expired_temp_files or on its own
\*   all            cleanup_all, called by cleanup_temp_files
\*   sched_expired  schedule_cleanup: cleanup_expired_files(30)
\*   sched_all      schedule_cleanup: cleanup_all
PhaseAfter(phase) ==
    CASE phase = "all" -> "sched_expired"
      [] phase = "sched_expired" -> "sched_all"
      [] OTHER -> "end"

\* The loops that are a run of cleanup_expired_files.
ExpiryPhases == { "expired", "sched_expired" }

\* A loop is entered at time t: the list of handles it will go through is
\* fixed before its first cleanup_file call.
AdminBegin(a, phase, tf, created, t) ==
    IF phase \in ExpiryPhases
    THEN LET m == IF phase = "expired" THEN a.max_age ELSE ScheduledMaxAge
         IN  [ a EXCEPT !.phase = phase, !.max_age = m,
                        !.ids = InOrder(ExpiredFiles(tf, created, t, m),
                                        created),
                        !.cur = 0, !.cl = "none", !.at = t,
                        !.tracked = tf, !.swept = {} ]
    ELSE [ a EXCEPT !.phase = phase, !.ids = InOrder(tf, created),
                    !.cur = 0, !.cl = "none" ]

RECURSIVE AdminRun(_, _, _, _, _, _)

\* The endpoint runs on from the i-th handle of its current loop:
\* cleanup_file is called handle by handle, loop after loop, until a call
\* awaits the executor or the last loop is over and the endpoint answers
\* 200.  `called` lists the handles cleanup_file was called on; a.freed
\* are the handles for which a call returned True.
AdminRun(a, i, tf, dk, created, t) ==
    IF i > Len(a.ids)
    THEN IF PhaseAfter(a.phase) = "end"
         THEN [ a |-> [ a EXCEPT !.phase = "done", !.cur = 0, !.cl = "none",
                                 !.code = 200 ],
                tf |-> tf, called |-> << >> ]
         ELSE AdminRun(AdminBegin(a, PhaseAfter(a.phase), tf, created, t),
                       1, tf, dk, created, t)
    ELSE LET f == a.ids[i]
             r == CfEnter(f, tf, dk)
             b == [ a EXCEPT !.swept = IF a.phase \in ExpiryPhases
                                       THEN @ \cup { f } ELSE @,
                             !.freed = IF r.ret = "true"
                                       THEN @ \cup { f } ELSE @ ]
         IN  IF r.ret = "pending"
             THEN [ a |-> [ b EXCEPT !.cur = i, !.cl = r.cl ],
                    tf |-> r.tf, called |-> << f >> ]
             ELSE LET rest == AdminRun(b, i + 1, r.tf, dk, created, t)
                  IN  [ rest EXCEPT !.called = << f >> \o @ ]

\* The endpoint arrives at run: the state of its loop, temp_files, and the
\* cleanup_file calls it made on the way.  A call made on a handle while
\* the owning job is inside cleanup_file on it overlaps with that call.
AdminLand(run) ==
    /\ admin' =
         [ run.a EXCEPT
             !.raced = \/ @
                       \/ /\ owner.cl # "none"
                          /\ \E k \in DOMAIN run.called :
                                run.called[k] = owner.fid ]
    /\ temp_files' = run.tf
    /\ releases' =
         [ f \in FileIds |->
             releases[f]
               + Cardinality({ k \in DOMAIN run.called : run.called[k] = f }) ]

\* A storage endpoint is called; one call is followed to its end.
AdminCall(op, phase, m) ==
    /\ admin = NoAdmin
    /\ AdminLand(AdminRun(AdminBegin([ NoAdmin EXCEPT !.op = op,
                                                       !.max_age = m ],
                                      phase, temp_files, created_at, now),
                          1, temp_files, disk, created_at, now))
    /\ UNCHANGED << trackerVars, disk, registryVars, procVars, reply,
                    cf_ret, progVars, created_at, owner, batchVars >>

\* cleanup_expired_files(m) awaited on its own.
CleanupExpiredFiles(m) == AdminCall("sweep", "expired", m)

\* POST /temp-files/cleanup-expired: max_age_minutes <= 0 and
\* max_age_minutes > 1440 are answered 400; otherwise
\* cleanup_expired_files(max_age_minutes) is awaited.
CleanupExpiredTempFiles(m) ==
    IF m <= 0 \/ m > MaxAgeMinutes
    THEN /\ admin = NoAdmin
         /\ admin' = [ NoAdmin EXCEPT !.op = "expired", !.phase = "done",
                                      !.max_age = m, !.code = 400 ]
         /\ UNCHANGED << trackerVars, handlerVars, registryVars, procVars,
                         reply, cf_ret, progVars, created_at, owner,
                         batchVars >>
    ELSE AdminCall("expired", "expired", m)

\* POST /temp-files/cleanup: cleanup_all is awaited, then
\* schedule_cleanup.
CleanupTempFiles == AdminCall("force", "all", ScheduledMaxAge)

\* The executor call of the endpoint's cleanup_file runs.
AdminIO ==
    /\ admin.cl \in { "await_remove", "await_rmdir" }
    /\ LET io == ExecutorRun(admin.cl, admin.ids[admin.cur], disk)
       IN  /\ disk' = io.dk
           /\ admin' = [ admin EXCEPT !.cl = io.cl ]
    /\ UNCHANGED << trackerVars, temp_files, releases, registryVars,
                    procVars, reply, cf_ret, progVars, created_at, owner,
                    batchVars >>

\* cleanup_file resumes after its executor call and the endpoint runs on.
AdminResume ==
    /\ admin.cl \in { "remove_ok", "remove_err", "rmdir_ok", "rmdir_err" }
    /\ LET f == admin.ids[admin.cur]
           r == CfResume(admin.cl, f, temp_files, disk)
       IN  IF r.ret = "pending"
           THEN AdminLand([ a |-> [ admin EXCEPT !.cl = r.cl ], tf |-> r.tf,
                            called |-> << >> ])
           ELSE AdminLand(AdminRun([ admin EXCEPT
                                       !.cl = "none",
                                       !.freed = IF r.ret = "true"
                                                 THEN @ \cup { f } ELSE @ ],
                                   admin.cur + 1, r.tf, disk, created_at,
                                   now))
    /\ UNCHANGED << trackerVars, disk, registryVars, procVars, reply,
                    cf_ret, progVars, created_at, owner, batchVars >>

\* The ids save_to_temp hands out while the storage endpoints are
\* exercised.
StoredIds == { << "file", i >> : i \in 1..MaxStored }

\* The ids save_to_temp has handed out.
Saved == { f \in StoredIds : f \in temp_files \/ releases[f] > 0 }

\* save_to_temp(upload_file) succeeds: the file is written and tracked
\* under a new id with created_at the time of the call.  Ids are handed
\* out in the order of their numbers.
SaveToTemp(f) ==
    /\ f \in StoredIds \ Saved
    /\ \A g \in StoredIds \ Saved : f[2] <= g[2]
    /\ temp_files' = temp_files \cup { f }
    /\ disk' = [ disk EXCEPT ![f] = [ file |-> TRUE, dir |-> TRUE ] ]
    /\ created_at' = [ created_at EXCEPT ![f] = now ]
    /\ UNCHANGED << trackerVars, releases, registryVars, procVars, reply,
                    cf_ret, progVars, admin, owner, batchVars >>

\* A job calls cleanup_file on the handle it owns, as the finally clause
\* of _process_async_analysis_task does, and runs to the call's first
\* suspension point; one such call is followed to its end.
OwnerRelease(f) ==
    /\ owner = NoOwner
    /\ f \in Saved
    /\ LET r == CfEnter(f, temp_files, disk)
       IN  /\ owner' = [ fid |-> f, cl |-> r.cl, ret |-> r.ret ]
           /\ temp_files' = r.tf
    /\ releases' = [ releases EXCEPT ![f] = @ + 1 ]
    /\ admin' = [ admin EXCEPT
                   !.raced = \/ @
                             \/ /\ admin.cl # "none"
                                /\ admin.ids[admin.cur] = f ]
    /\ UNCHANGED << trackerVars, disk, registryVars, procVars, reply,
                    cf_ret, progVars, created_at, batchVars >>

\* The executor call of the job's cleanup_file runs.
OwnerIO ==
    /\ owner.cl \in { "await_remove", "await_rmdir" }
    /\ LET io == ExecutorRun(owner.cl, owner.fid, disk)
       IN  /\ disk' = io.dk
           /\ owner' = [ owner EXCEPT !.cl = io.cl ]
    /\ UNCHANGED << trackerVars, temp_files, releases, registryVars,
                    procVars, reply, cf_ret, progVars, created_at, admin,
                    batchVars >>

\* The job's cleanup_file resumes after its executor call.
OwnerResume ==
    /\ owner.cl \in { "remove_ok", "remove_err", "rmdir_ok", "rmdir_err" }
    /\ LET r == CfResume(owner.cl, owner.fid, temp_files, disk)
       IN  /\ owner' = [ owner EXCEPT !.cl = r.cl, !.ret = r.ret ]
           /\ temp_files' = r.tf
    /\ UNCHANGED << trackerVars, disk, releases, registryVars, procVars,
                    reply, cf_ret, progVars, created_at, admin, batchVars >>

\* The values of max_age_minutes the sweep is called with.
SweepFileArgs == { 0, 1 }

\* The values of max_age_minutes sent to the endpoint.
EndpointFileArgs == { 0, 1, MaxAgeMinutes + 1 }

InitSweep == InitCommon

NextSweep ==
    \/ \E f \in StoredIds : SaveToTemp(f)
    \/ ClockAdvances
    \/ \E m \in SweepFileArgs : CleanupExpiredFiles(m)
    \/ \E m \in EndpointFileArgs : CleanupExpiredTempFiles(m)
    \/ CleanupTempFiles
    \/ AdminIO
    \/ AdminResume
    \/ \E f \in StoredIds : OwnerRelease(f)
    \/ OwnerIO
    \/ OwnerResume

SpecSweep == InitSweep /\ [][NextSweep]_vars

\* A run of cleanup_expired_files(max_age) called on its own or through
\* its endpoint has returned.
SweepReturned ==
    /\ admin.op \in { "sweep", "expired" }
    /\ admin.phase = "done"
    /\ admin.code = 200

\* Another task is inside cleanup_file on handle f.
BeingReleased(f) == owner.fid = f /\ owner.cl # "none"

\* C34: cleanup_expired_files(maxAge) calls cleanup_file on the handles
\* that were tracked when it was called and older than maxAge then, and on
\* no other handle; when it has returned each of those handles is
\* untracked, or about to be untracked by its job's own cleanup_file call
\* that was under way, and a handle not older than maxAge that no job
\* released is tracked with its file and directory in place.  The sweep
\* never asks whether the owning job is still running.
C34_SweepReleasesExpiredOnly ==
    LET old == { f \in admin.tracked :
                   admin.at - created_at[f] > admin.max_age * MinuteTicks }
    IN  /\ admin.op \in { "sweep", "expired" } => admin.swept \subseteq old
        /\ SweepReturned
           => /\ admin.swept = old
              /\ \A f \in old : f \notin temp_files \/ BeingReleased(f)
              /\ \A f \in admin.tracked \ old :
                    owner.fid # f
                    => /\ f \in temp_files
                       /\ disk[f] = [ file |-> TRUE, dir |-> TRUE ]

\* A sweep has returned that found one handle older than maxAge and one
\* that was not: the first is gone from temp_files and from the disk, the
\* second is still tracked.
C34_Witness ==
    /\ SweepReturned
    /\ \E f, g \in admin.tracked :
         /\ admin.at - created_at[f] > admin.max_age * MinuteTicks
         /\ admin.at - created_at[g] <= admin.max_age * MinuteTicks
         /\ f \notin temp_files
         /\ disk[f] = NoDisk[f]
         /\ g \in temp_files
         /\ owner = NoOwner

\* C35: the tracker registry holds only the trackers of jobs in flight:
\* when a request or job has ended, its analysis returned or raised, no
\* tracker is registered under its id.
C35_TrackerRemovedAtEnd ==
    \A p \in Procs : pc[p] = "done" => p \notin active_trackers

\* ------------------------------- jobs and the storage endpoints together

InitStorage == InitCommon

\* The requests and jobs of Spec, with time passing and one call of a
\* storage endpoint arriving at any moment.
NextStorage ==
    \/ Next
    \/ ClockAdvances
    \/ \E m \in EndpointFileArgs : CleanupExpiredTempFiles(m)
    \/ CleanupTempFiles
    \/ AdminIO
    \/ AdminResume

SpecStorage == InitStorage /\ [][NextStorage]_vars

\* The engine call of the request or job in slot p is outstanding.
EngineOutstanding(p) == pc[p] = "a_engine"

\* C36: while the engine call of a job is outstanding the temp file the
\* job owns is tracked and on disk: no force-cleanup, scheduled cleanup or
\* expiry sweep releases it.
C36_RunningJobKeepsFile ==
    \A p \in Procs :
        EngineOutstanding(p)
        => /\ p \in temp_files
           /\ disk[p] = [ file |-> TRUE, dir |-> TRUE ]

\* C37: whenever the record of a batch has been removed from the registry
\* and its driving task has ended, none of the handles saved for the batch
\* is still tracked.
C37_DeletedBatchLeavesNoFile ==
    \A b \in BatchProcs :
        ( /\ batch_info[b] # NoBatch
          /\ b \notin batch_tasks
          /\ batch_pc[b] = "done" )
        => \A k \in DOMAIN batch_info[b].file_ids :
              batch_info[b].file_ids[k] \notin temp_files

\* C38: once a batch is marked cancelled its status never becomes
\* processing or completed: the driving task does not overwrite it.
C38_CancelledStays ==
    [][ \A b \in BatchProcs :
          batch_info[b].status = "cancelled"
          => batch_info'[b].status \notin { "processing", "completed" }
      ]_vars

\* get_batch_analysis_result: the counters of the answer, read from the
\* dict task["progress"] refers to.
BatchResultBody(rec) ==
    [ status |-> rec.status,
      file_count |-> rec.file_count,
      completed_count |-> rec.shown.completed_count,
      failed_count |-> rec.shown.failed_count ]

\* C39: for a registered batch in a terminal status the completed_count
\* and failed_count that get-batch-status and get-batch-result report are
\* the lengths of completed_files and failed_files; while it is processing
\* they do not exceed those lengths.
C39_CountersMatchLists ==
    \A b \in batch_tasks :
        LET rec == batch_info[b]
            st == BatchStatusBody(rec)
            res == BatchResultBody(rec)
        IN  /\ rec.status \in BatchTerminal
               => /\ st.completed_count = Len(rec.completed_files)
                  /\ st.failed_count = Len(rec.failed_files)
                  /\ res.completed_count = Len(rec.completed_files)
                  /\ res.failed_count = Len(rec.failed_files)
            /\ rec.status = "processing"
               => /\ st.completed_count <= Len(rec.completed_files)
                  /\ st.failed_count <= Len(rec.failed_files)

\* The endpoint is inside a cleanup_file call on handle f.
AdminInside(f) == admin.cl # "none" /\ admin.ids[admin.cur] = f

\* A job's cleanup_file call on its handle and a call a storage endpoint
\* made on the same handle overlapped, and both have returned.
RaceOver ==
    /\ admin.raced
    /\ owner.cl = "none"
    /\ ~AdminInside(owner.fid)

\* C40: when a job's own cleanup_file call and a call made by the expiry
\* sweep or the force-cleanup run on the same tracked handle at the same
\* time, both return a boolean (neither raises), at most one of them
\* returns True, and once both have returned the handle is not tracked.
C40_ConcurrentReleaseIsSafe ==
    /\ owner.cl = "none" => owner.ret \in { "none", "true", "false" }
    /\ RaceOver
       => /\ owner.ret \in { "true", "false" }
          /\ ~( owner.ret = "true" /\ owner.fid \in admin.freed )
          /\ owner.fid \notin temp_files

\* Both calls have returned after racing on a handle, the job's call with
\* False because the endpoint's call removed the file first.
C40_Witness ==
    /\ RaceOver
    /\ owner.ret = "false"
    /\ owner.fid \in admin.freed
    /\ disk[owner.fid] = NoDisk[owner.fid]

\* C4: for every valid phase sequence (update_step only forward in the
\* phase order, step progress not decreasing within a phase) the overall
\* progress never decreases from one call to the next.
C4_OverallNonDecreasing ==
    [][pt_valid' => pt'.overall_progress >= pt.overall_progress]_vars

\* C5: overall_progress is exactly 100 if and only if the current phase is
\* Completed.
C5_HundredIffCompleted ==
    (pt.overall_progress = 1000) <=> (pt.current_step = "completed")

====
